---- MODULE Spec2Model ----
(***************************************************************************)
(* SMART on FHIR app (src/server.js): the OAuth2 authorization-code flow   *)
(* with PKCE, the express-session store behind req.session, and the        *)
(* session-scoped API endpoints.                                           *)
(*                                                                         *)
(* One browser is modelled.  The session middleware (server.js 34-39,      *)
(* default MemoryStore) hands each request its own copy of the stored      *)
(* session when the request arrives, the route handler runs on a later     *)
(* turn of the event loop, and the copy is written back as a whole when    *)
(* the response ends, if it differs from what was loaded.  Every `await`   *)
(* of a handler is a separate step, so requests of one session interleave. *)
(* A request whose handler answers at once without changing its session    *)
(* leaves nothing behind but its response: it is served in one step.       *)
(*                                                                         *)
(* All JavaScript values are tuples <<tag, n>> so that any two of them can *)
(* be compared.                                                            *)
(***************************************************************************)
EXTENDS Integers, Sequences, FiniteSets, TLC

VARIABLES
    store,      \* MemoryStore.sessions: session id -> stored session record
    cookie,     \* the session id in the browser's cookie
    reqs,       \* slot -> the request in flight in it (its handler's position and locals)
    last,       \* the request answered last, as it was when its response ended
    nreq,       \* number of requests that have held a copy of a session
    limit,      \* the number of such requests in this behaviour
    issued,     \* history: <<state, code_challenge>> of every authorization redirect
    posted,     \* history: the code verifiers sent in token requests since the last
                \* arrival or end of a launch
    flows       \* history: session id -> <<older, newer>>, the last two launches that
                \* redirected on that session, no callback having arrived or been in
                \* progress since the older one redirected (0: no such launch)

vars == <<store, cookie, reqs, last, nreq, limit, issued, posted, flows>>

\* Requests of the browser whose handlers are in progress at the same time.
MaxInflight == 2

\* Requests in one behaviour that hold a copy of a session until they are
\* answered (the others are served in one step, in any number).
MaxRequests == 3

Slots == 1..MaxInflight
Sids == 0..(MaxInflight + 1)
stored == DOMAIN store

----------------------------------------------------------------------------
\* JavaScript values

Undefined == <<"undefined", 0>>
Null == <<"null", 0>>
EmptyString == <<"string", 0>>
True == <<"bool", 1>>
False == <<"bool", 0>>

\* JavaScript truthiness of a value (if (x), !x, x || y).
Truthy(v) == v \notin {Undefined, Null, EmptyString, False}

Or(a, b) == IF Truthy(a) THEN a ELSE b

\* A string as the sequence of its characters.
Text(chars) == IF chars = <<>> THEN EmptyString ELSE <<"text", chars>>

\* typeof v === 'string'
IsString(v) == v = EmptyString \/ v[1] = "text"

\* process.env
FHIR_BASE_URL == <<"url", 1>>
CLIENT_ID == Text(<<"c", "l", "i", "e", "n", "t", "-", "0", "0", "1">>)
REDIRECT_URI == <<"url", 2>>
SMART_SCOPES == <<"scope", 0>>

\* Endpoints of the authorization server.
AuthorizeUrl == <<"url", 3>>
TokenUrl == <<"url", 4>>

----------------------------------------------------------------------------
\* PKCE helpers

\* crypto.randomBytes(32): a value no other call returns; r is the request drawing it.
generateCodeVerifier(r) == <<"verifier", r>>

\* SHA-256 of the verifier, base64url: one-way, and injective on the verifiers in use.
generateCodeChallenge(verifier) == <<"S256", verifier>>

\* crypto.randomBytes(16) as hex: the i-th draw of request r.
generateState(r, i) == <<"hex", 2 * r + i>>

maskClientId(clientId) ==
    IF ~Truthy(clientId) \/ ~IsString(clientId) THEN Null
    ELSE LET chars == clientId[2]
             n == Len(chars)
         IN  IF n <= 8 THEN Text([k \in 1..8 |-> "*"])
             ELSE Text(SubSeq(chars, 1, 4) \o <<".", ".", ".">>
                       \o SubSeq(chars, n - 3, n))

----------------------------------------------------------------------------
\* Session

EmptySession ==
    [codeVerifier |-> Undefined, state |-> Undefined, nonce |-> Undefined,
     fhirBaseUrl |-> Undefined, tokenEndpoint |-> Undefined,
     accessToken |-> Undefined, refreshToken |-> Undefined,
     patientId |-> Undefined, expiresIn |-> Undefined,
     tokenType |-> Undefined, grantedScope |-> Undefined,
     demoMode |-> Undefined,
     lastEpicErrors |-> Undefined, lastEpicTrace |-> Undefined]

\* req.query of a request without query parameters.
NoQuery ==
    [state |-> Undefined, error |-> Undefined,
     error_description |-> Undefined, code |-> Undefined]

NoResponse == [status |-> 0, tag |-> "none", body |-> <<>>]

Response(status, tag, body) == [status |-> status, tag |-> tag, body |-> body]

\* A free slot. Of a request: kind and pc are the route and the handler's position,
\* sid and fresh its session id and whether the middleware generated it, sess is
\* req.session and orig what was loaded, num numbers the request, out lists the
\* outbound requests made and replies what came back for them, observations and
\* categoryErrors are locals of /api/observations, res is the response. History:
\* flow is flows[sid] at arrival; replay marks a callback whose token request
\* carries a verifier that an earlier one carried, with no launch since.
IdleRequest ==
    [kind |-> "none", pc |-> "idle", sid |-> 0, fresh |-> FALSE,
     sess |-> EmptySession, orig |-> EmptySession, query |-> NoQuery, num |-> 0,
     out |-> <<>>, replies |-> <<>>, observations |-> <<>>, categoryErrors |-> <<>>,
     res |-> NoResponse, flow |-> <<0, 0>>, replay |-> FALSE]

\* An outbound request that is not made.
NoOutbound == <<>>

\* An outbound HTTP request of the server (axios): url is the base or endpoint
\* URL and path what the handler appends to it; code and code_verifier are form
\* fields, bearer the Authorization header, patient and category query parameters.
Outbound(method, url, path, code, verifier, bearer, patient, category) ==
    [method |-> method, url |-> url, path |-> path, code |-> code,
     code_verifier |-> verifier, bearer |-> bearer, patient |-> patient,
     category |-> category]

----------------------------------------------------------------------------
\* Responses and outbound requests of the handlers

\* A string literal of the source.
Lit(name) == <<name, 0>>

\* The value of a parameter of a response body or URL.
Param(body, name) ==
    LET k == CHOOSE k \in 1..Len(body) : body[k][1] = name IN body[k][2]

\* What the synchronous part of a handler comes to: it answers (res.json,
\* res.redirect) with req.session as it then is, or it awaits an outbound request.
Answer(sess, res) == [sess |-> sess, res |-> res, pc |-> "done", out |-> NoOutbound]
Wait(sess, pc, outbound) ==
    [sess |-> sess, res |-> NoResponse, pc |-> pc, out |-> <<outbound>>]

\* An unauthenticated GET below the configured FHIR base URL.
Get(path) ==
    Outbound("GET", FHIR_BASE_URL, path, Undefined, Undefined, Undefined, Undefined,
             Undefined)

----------------------------------------------------------------------------
\* GET /launch, up to discovery

\* getSmartConfiguration starts: GET <base>/.well-known/smart-configuration.
launch(query, sess) == Wait(sess, "await_wellknown", Get("/.well-known/smart-configuration"))

----------------------------------------------------------------------------
\* GET /callback, up to the token request

\* if (error): the authorization server reported an error.
hasError(query) == Truthy(query.error)

\* A faulty variant of the state check: it is skipped when the state parameter
\* is absent.
stateMismatchWhenPresent(query, sess) == Truthy(query.state) /\ query.state # sess.state

\* if (state !== req.session.state)
stateMismatch(query, sess) == query.state # sess.state

\* The token request: POST to the session's token endpoint.
tokenRequest(query, sess) ==
    Outbound("POST", sess.tokenEndpoint, "", query.code, sess.codeVerifier,
             Undefined, Undefined, Undefined)

authorizationDenied(query) ==
    Response(400, "authorization_denied",
             << <<"error", query.error>>,
                <<"error_description", query.error_description>>,
                <<"hint", Lit("Authorization was denied or failed")>> >>)

\* A handler that returns on a state mismatch without answering.
StateMismatchUnanswered == NoResponse

StateMismatch ==
    Response(400, "state_mismatch",
             << <<"error", Lit("State mismatch - possible CSRF attack")>> >>)

\* A faulty variant of the handler: the state is checked before the error.
callbackStateFirst(query, sess) ==
    IF stateMismatch(query, sess) THEN Answer(sess, StateMismatch)
    ELSE IF hasError(query) THEN Answer(sess, authorizationDenied(query))
    ELSE Wait(sess, "await_token", tokenRequest(query, sess))

callback(query, sess) ==
    IF hasError(query) THEN Answer(sess, authorizationDenied(query))
    ELSE IF stateMismatch(query, sess) THEN Answer(sess, StateMismatch)
    ELSE Wait(sess, "await_token", tokenRequest(query, sess))

----------------------------------------------------------------------------
\* GET /demo, GET /api/session, GET /api/debug/epic

Dashboard == Response(302, "dashboard", << <<"location", Lit("/dashboard")>> >>)

\* The session /demo seeds.
demoSession(sess) ==
    [sess EXCEPT !.accessToken = Lit("demo-token"),
                 !.patientId = Lit("demo-patient-001"),
                 !.fhirBaseUrl = Lit("https://fhir.epic.com (Demo Mode)"),
                 !.demoMode = True]

demo(query, sess) == Answer(demoSession(sess), Dashboard)

\* A faulty variant of the authentication check: only null counts as no token.
accessTokenIsNull(sess) == sess.accessToken = Null

\* if (!req.session.accessToken)
notAuthenticated(sess) == ~Truthy(sess.accessToken)

NotAuthenticated ==
    Response(401, "not_authenticated", << <<"error", Lit("Not authenticated")>> >>)

\* The body of /api/session.
sessionInfo(sess) ==
    << <<"patientId", sess.patientId>>,
       <<"fhirBaseUrl", sess.fhirBaseUrl>>,
       <<"expiresIn", sess.expiresIn>>,
       <<"authenticated", True>>,
       <<"demoMode", Or(sess.demoMode, False)>>,
       <<"grantedScope", Or(sess.grantedScope, Null)>> >>

apiSession(query, sess) ==
    IF notAuthenticated(sess) THEN Answer(sess, NotAuthenticated)
    ELSE Answer(sess, Response(200, "session", sessionInfo(sess)))

\* A faulty variant of the debug body: the flow state is dumped with it.
debugInfoWithFlow(sess) ==
    << <<"patientId", sess.patientId>>,
       <<"fhirBaseUrl", sess.fhirBaseUrl>>,
       <<"state", sess.state>>,
       <<"codeVerifier", sess.codeVerifier>> >>

\* The body of /api/debug/epic.
debugInfo(sess) ==
    << <<"patientId", sess.patientId>>,
       <<"fhirBaseUrl", sess.fhirBaseUrl>>,
       <<"grantedScope", Or(sess.grantedScope, Null)>>,
       <<"clientId", maskClientId(CLIENT_ID)>>,
       <<"lastEpicErrors", Or(sess.lastEpicErrors, Null)>>,
       <<"lastEpicTrace", Or(sess.lastEpicTrace, Null)>> >>

apiDebug(query, sess) ==
    IF notAuthenticated(sess) THEN Answer(sess, NotAuthenticated)
    ELSE Answer(sess, Response(200, "debug", debugInfo(sess)))

----------------------------------------------------------------------------
\* GET /api/patient, /api/observations, /api/conditions, /api/medications,
\* up to the first FHIR request

Number(n) == <<"number", n>>

Array(seq) == <<"array", seq>>

\* A JavaScript object with the keys DOMAIN f.
Object(f) == <<"object", f>>

\* The k-th resource that a search returns: its resourceType and its id.
Entry(resourceType, search, k) == <<resourceType, <<search, k>>>>

\* An issue of an OperationOutcome: its diagnostics and its details.text
\* (Undefined where the issue has none, or is null).
Issue(diagnostics, text) == [diagnostics |-> diagnostics, details |-> text]

\* Diagnostic texts, as sequences of words and punctuation: one that names an
\* interaction the client is not authorized for, and another one.
NotAuthorizedFor == "Client not authorized for "
NotAuthorized == Text(<<NotAuthorizedFor, "Observation", ".", "read", ".">>)
OtherDiagnostic == Text(<<"Internal", " ", "error">>)

\* A FHIR resource: its resourceType and, of an OperationOutcome, its issue: one
\* issue with the diagnostics given (Undefined: an issue without diagnostics).
Resource(resourceType, diagnostics) ==
    <<resourceType, IF resourceType = "OperationOutcome"
                    THEN Array(<<Issue(diagnostics, Undefined)>>)
                    ELSE Undefined>>

\* process.env.OBSERVATION_CATEGORIES is not set.
categories == <<"laboratory", "vital-signs">>

\* An authenticated GET to the FHIR server for the session's patient.
FhirGet(sess, path, category) ==
    Outbound("GET", sess.fhirBaseUrl, path, Undefined, Undefined,
             sess.accessToken, sess.patientId, category)

\* DEMO_DATA: the patient, and for each of the three searches a Bundle that
\* holds its resourceType and its entries (four observations, three conditions,
\* three medication requests), and neither type nor total.
DemoData(resourceType) ==
    LET Demo(type, n) ==
            << <<"resourceType", Lit("Bundle")>>,
               <<"entry", Array([k \in 1..n |-> Entry(type, "demo", k)])>> >>
    IN  Response(200, "demo",
                 CASE resourceType = "Patient" ->
                        << <<"resourceType", Lit("Patient")>>,
                           <<"id", Lit("demo-patient-001")>> >>
                   [] resourceType = "Observations" -> Demo("Observation", 4)
                   [] resourceType = "Conditions" -> Demo("Condition", 3)
                   [] resourceType = "Medications" -> Demo("MedicationRequest", 3))

\* A start of the resource handlers without the demo branch.
resourceLiveOnly(sess, pc, demoData, outbound) ==
    IF notAuthenticated(sess) THEN Answer(sess, NotAuthenticated)
    ELSE Wait(sess, pc, outbound)

\* The common start of the four resource handlers.
resource(sess, pc, demoData, outbound) ==
    IF notAuthenticated(sess) THEN Answer(sess, NotAuthenticated)
    ELSE IF Truthy(sess.demoMode) THEN Answer(sess, demoData)
    ELSE Wait(sess, pc, outbound)

apiPatient(query, sess) ==
    resource(sess, "await_patient", DemoData("Patient"),
             FhirGet(sess, "/Patient/", Undefined))

apiObservations(query, sess) ==
    resource(sess, "await_observations", DemoData("Observations"),
             FhirGet(sess, "/Observation", Lit(categories[1])))

apiConditions(query, sess) ==
    resource(sess, "await_conditions", DemoData("Conditions"),
             FhirGet(sess, "/Condition", Undefined))

apiMedications(query, sess) ==
    resource(sess, "await_medications", DemoData("Medications"),
             FhirGet(sess, "/MedicationRequest", Undefined))

----------------------------------------------------------------------------
\* The debug sample routes, up to the first FHIR request

\* entries.slice(0, 5)
firstFive(entries) == SubSeq(entries, 1, IF Len(entries) < 5 THEN Len(entries) ELSE 5)

\* res.json of a sample: the members given, the count and the samples.
SampleResponse(members, samples) ==
    Response(200, "sample",
             members \o << <<"count", Number(Len(samples))>>,
                           <<"samples", Array(samples)>> >>)

\* GET /api/debug/observations/sample: 401 without a token, the first five demo
\* observations in demo mode, else the search of the first category.
debugObservationsSample(query, sess) ==
    IF notAuthenticated(sess) THEN Answer(sess, NotAuthenticated)
    ELSE IF Truthy(sess.demoMode)
    THEN Answer(sess, SampleResponse(<< <<"mode", Lit("demo")>> >>,
                    firstFive(Param(DemoData("Observations").body, "entry")[2])))
    ELSE Wait(sess, "await_observations_sample",
              FhirGet(sess, "/Observation", Lit(categories[1])))

\* GET /api/debug/medications/sample: 401 without a token, else the search.
debugMedicationsSample(query, sess) ==
    IF notAuthenticated(sess) THEN Answer(sess, NotAuthenticated)
    ELSE Wait(sess, "await_medications_sample",
              FhirGet(sess, "/MedicationRequest", Undefined))

\* GET /api/debug/conditions/sample: 401 without a token, else the search.
debugConditionsSample(query, sess) ==
    IF notAuthenticated(sess) THEN Answer(sess, NotAuthenticated)
    ELSE Wait(sess, "await_conditions_sample", FhirGet(sess, "/Condition", Undefined))

----------------------------------------------------------------------------
\* Routing and the express-session middleware

\* The routes with a session-dependent handler, /logout apart.
Kinds ==
    {"launch", "callback", "demo", "session", "debug",
     "patient", "observations", "conditions", "medications"}

\* The synchronous part of the handler of a route.
Handler(kind, query, sess) ==
    CASE kind = "launch" -> launch(query, sess)
      [] kind = "callback" -> callback(query, sess)
      [] kind = "demo" -> demo(query, sess)
      [] kind = "session" -> apiSession(query, sess)
      [] kind = "debug" -> apiDebug(query, sess)
      [] kind = "patient" -> apiPatient(query, sess)
      [] kind = "observations" -> apiObservations(query, sess)
      [] kind = "conditions" -> apiConditions(query, sess)
      [] kind = "medications" -> apiMedications(query, sess)
      [] kind = "observationsSample" -> debugObservationsSample(query, sess)
      [] kind = "medicationsSample" -> debugMedicationsSample(query, sess)
      [] kind = "conditionsSample" -> debugConditionsSample(query, sess)

\* The states the authorization server can send back: those of the redirects
\* the browser has received.
IssuedStates == {i[1] : i \in issued}

\* The queries of /callback: state absent, foreign or issued; error absent, empty
\* or set; code present, or no parameter at all.
CallbackQueries ==
    LET states == {Undefined, Lit("bogus")} \cup IssuedStates
        errors == {<<Undefined, Undefined>>, <<EmptyString, Undefined>>,
                   <<Lit("access_denied"), Lit("description")>>}
    IN  {[state |-> s, error |-> e[1], error_description |-> e[2],
          code |-> Lit("code")] : s \in states, e \in errors}
        \cup {NoQuery}

Queries(kind) == IF kind = "callback" THEN CallbackQueries ELSE {NoQuery}

\* The slots and session ids in use.
Busy == {i \in Slots : reqs[i].pc # "idle"}
FreeSlot == CHOOSE i \in Slots \ Busy : \A j \in Slots \ Busy : i <= j
UsedSids == {cookie} \cup {reqs[i].sid : i \in Busy}
NewSid == CHOOSE s \in Sids \ UsedSids : \A t \in Sids \ UsedSids : s <= t

\* The session the middleware gives a request that arrives now: a copy of the
\* stored session of its cookie, or a new empty session when the store holds none.
Loaded ==
    IF cookie \in stored
    THEN [sid |-> cookie, fresh |-> FALSE, sess |-> store[cookie]]
    ELSE [sid |-> NewSid, fresh |-> TRUE, sess |-> EmptySession]

\* The answer or the outbound request of a request that arrives now.
Served(kind, query) == Handler(kind, query, Loaded.sess)

\* The request as the handler gets it.
Incoming(kind, query, loaded) ==
    [IdleRequest EXCEPT !.kind = kind, !.pc = "loaded", !.query = query,
                        !.sid = loaded.sid, !.fresh = loaded.fresh,
                        !.sess = loaded.sess, !.orig = loaded.sess,
                        !.num = nreq + 1,
                        !.flow = flows[loaded.sid]]

\* History: a callback has arrived on session sid.
CallbackArrived(kind, sid) ==
    IF kind = "callback" THEN [flows EXCEPT ![sid] = <<0, 0>>] ELSE flows

\* shouldSave at the end of a response (resave: false, saveUninitialized: true):
\* a new session is always saved, a loaded one when it was modified.
shouldSave(req, sess) == req.fresh \/ sess # req.orig

\* The handler answers a request that arrives now at once and nothing is saved
\* when its response, Served(kind, query).res, ends.
Answered(kind, query) ==
    /\ Served(kind, query).pc = "done"
    /\ ~shouldSave(Incoming(kind, query, Loaded), Served(kind, query).sess)

\* A request of a stored session whose handler answers at once and leaves the
\* session as it is: nothing is saved, no cookie is set.
Serve(kind) ==
    /\ \E query \in Queries(kind) : Answered(kind, query)
    /\ flows' = CallbackArrived(kind, Loaded.sid)
    /\ UNCHANGED <<store, cookie, reqs, last, nreq, limit, issued, posted>>

\* Any other request: it holds its copy of the session until its response ends.
\* The synchronous part of a handler that awaits is run on arrival.
Arrive(kind, query) ==
    LET req == Incoming(kind, query, Loaded)
        h == Served(kind, query)
    IN  /\ Busy # Slots
        /\ nreq < limit
        /\ ~Answered(kind, query)
        /\ reqs' = [reqs EXCEPT ![FreeSlot] =
                       IF h.pc = "done" THEN req
                       ELSE [req EXCEPT !.pc = h.pc, !.sess = h.sess, !.out = h.out,
                                        !.replay = kind = "callback"
                                            /\ h.out[1].code_verifier \in posted
                                            /\ \A j \in Busy : reqs[j].kind # "launch"]]
        /\ posted' = IF kind = "callback" /\ h.pc # "done"
                     THEN posted \cup {h.out[1].code_verifier}
                     ELSE IF kind = "launch" THEN {} ELSE posted
        /\ flows' = CallbackArrived(kind, req.sid)
        /\ nreq' = nreq + 1
        /\ UNCHANGED <<store, cookie, last, limit, issued>>

\* The end of a response: the handler's session is saved as a whole when
\* shouldSave, and a new session's id is set as the browser's cookie. Sessions
\* of other ids than the browser's are never read again and are dropped.
End(i, req, res, launched) ==
    LET sess == req.sess
        save == shouldSave(req, sess)
        c == IF req.fresh THEN req.sid ELSE cookie
    IN  /\ reqs' = [reqs EXCEPT ![i] = IdleRequest]
        /\ last' = [req EXCEPT !.pc = "done", !.res = res]
        /\ cookie' = c
        /\ store' = [s \in (IF save THEN stored \cup {req.sid} ELSE stored) \cap {c} |->
                        IF save /\ s = req.sid THEN sess ELSE store[s]]
        /\ flows' = [s \in Sids |->
                        IF s # c THEN <<0, 0>>
                        ELSE IF launched /\ s = req.sid
                        THEN <<IF \E j \in Busy : reqs[j].kind = "callback"
                               THEN 0 ELSE flows[s][2],
                               req.num>>
                        ELSE flows[s]]

\* The handler in slot i is at position pc.
At(i, pc) == reqs[i].pc = pc

\* The request with req.session set to sess.
With(req, sess) == [req EXCEPT !.sess = sess]

\* The request after its outbound request was answered (ok) or failed.
Received(req, ok, data) == [req EXCEPT !.replies = Append(@, [ok |-> ok, data |-> data])]

\* The handler in slot i issues a further outbound request and awaits its result.
Await(i, pc, outbound) ==
    /\ reqs' = [reqs EXCEPT ![i] =
                    [Received(@, FALSE, Undefined) EXCEPT
                        !.pc = pc, !.out = Append(@, outbound)]]
    /\ UNCHANGED <<store, cookie, last, nreq, limit, issued, posted, flows>>

\* The handler of a request that answers at once runs, a turn after the load.
Run(i) ==
    /\ At(i, "loaded")
    /\ LET h == Handler(reqs[i].kind, reqs[i].query, reqs[i].sess)
       IN  End(i, With(reqs[i], h.sess), h.res, FALSE)
    /\ UNCHANGED <<nreq, limit, issued, posted>>

\* GET /logout: req.session.destroy() drops the session from the store and from
\* the request, so nothing is saved when the response ends and no cookie is set.
Logout ==
    /\ last' = [Incoming("logout", NoQuery, Loaded) EXCEPT
                    !.pc = "done",
                    !.res = Response(302, "home", << <<"location", Lit("/")>> >>)]
    /\ store' = [s \in stored \ {cookie} |-> store[s]]
    /\ flows' = [flows EXCEPT ![cookie] = <<0, 0>>]
    /\ UNCHANGED <<cookie, reqs, nreq, limit, issued, posted>>

----------------------------------------------------------------------------
\* GET /launch, after discovery

\* What a discovery document can hold: both endpoints, one of them, or neither
\* (a 2xx answer whose body is not a SMART configuration).
SmartConfigs ==
    {[authorization_endpoint |-> a, token_endpoint |-> t] :
        a \in {AuthorizeUrl, Undefined}, t \in {TokenUrl, Undefined}}

\* The authorization URL built by /launch.
authUrl(smartConfig, state, nonce, codeChallenge) ==
    << <<"location", smartConfig.authorization_endpoint>>,
       <<"response_type", Lit("code")>>,
       <<"client_id", CLIENT_ID>>,
       <<"redirect_uri", REDIRECT_URI>>,
       <<"scope", SMART_SCOPES>>,
       <<"state", state>>,
       <<"nonce", nonce>>,
       <<"aud", FHIR_BASE_URL>>,
       <<"code_challenge", codeChallenge>>,
       <<"code_challenge_method", Lit("S256")>> >>

\* The flow state /launch stores in the session.
storeFlow(sess, l, smartConfig) ==
    [sess EXCEPT !.codeVerifier = generateCodeVerifier(l),
                 !.state = generateState(l, 0),
                 !.nonce = generateState(l, 1),
                 !.fhirBaseUrl = FHIR_BASE_URL,
                 !.tokenEndpoint = smartConfig.token_endpoint]

\* new URL(smartConfig.authorization_endpoint) throws on an undefined endpoint.
validUrl(u) == u # Undefined

launchFailed(message) ==
    Response(500, "launch_failed",
             << <<"error", Lit("Failed to start authorization")>>,
                <<"details", message>> >>)

\* /launch after discovery returned smartConfig: the flow state is stored, then
\* the URL is built; a throw there is answered 500 by the catch block.
LaunchContinue(i, smartConfig) ==
    LET sess == storeFlow(reqs[i].sess, reqs[i].num, smartConfig)
        req == With(Received(reqs[i], TRUE, smartConfig), sess)
        ok == validUrl(smartConfig.authorization_endpoint)
        url == authUrl(smartConfig, sess.state, sess.nonce,
                       generateCodeChallenge(sess.codeVerifier))
    IN  /\ IF ok
           THEN End(i, req, Response(302, "authorize", url), TRUE)
           ELSE End(i, req, launchFailed(Lit("Invalid URL")), FALSE)
        /\ issued' = IF ok
                     THEN issued \cup {<<Param(url, "state"), Param(url, "code_challenge")>>}
                     ELSE issued
        /\ posted' = {}
        /\ UNCHANGED <<nreq, limit>>

\* The well-known document was fetched: it is the configuration, as it is.
WellKnownOk(i) ==
    /\ At(i, "await_wellknown")
    /\ \E smartConfig \in SmartConfigs : LaunchContinue(i, smartConfig)

\* The well-known fetch failed: fall back to GET <base>/metadata.
WellKnownFail(i) ==
    /\ At(i, "await_wellknown")
    /\ Await(i, "await_metadata", Get("/metadata"))

\* The capability statement has the oauth-uris extension.
MetadataOk(i) ==
    /\ At(i, "await_metadata")
    /\ \E smartConfig \in SmartConfigs : LaunchContinue(i, smartConfig)

\* The capability statement has no oauth-uris extension, or its fetch failed:
\* getSmartConfiguration throws and the catch block of /launch answers 500.
MetadataFail(i) ==
    /\ At(i, "await_metadata")
    /\ End(i, Received(reqs[i], FALSE, Undefined), launchFailed(Lit("error.message")),
           FALSE)
    /\ posted' = {}
    /\ UNCHANGED <<nreq, limit, issued>>

----------------------------------------------------------------------------
\* GET /callback, after the token request

\* The token responses of the authorization server to request e: every optional field
\* present, or none of them. Each response carries a new access token.
TokenResponses(e) ==
    {[access_token |-> <<"access", e>>, refresh_token |-> <<"refresh", e>>,
      patient |-> <<"patient", 1>>, expires_in |-> <<"seconds", 3600>>,
      token_type |-> Lit("Bearer"), scope |-> SMART_SCOPES],
     [access_token |-> <<"access", e>>, refresh_token |-> Undefined,
      patient |-> Undefined, expires_in |-> Undefined,
      token_type |-> Undefined, scope |-> Undefined]}

\* A faulty variant: the access token alone is stored.
storeAccessToken(sess, data) == [sess EXCEPT !.accessToken = data.access_token]

\* "Store tokens in session", and the diagnostics are cleared.
storeTokens(sess, data) ==
    [sess EXCEPT !.accessToken = data.access_token,
                 !.refreshToken = data.refresh_token,
                 !.patientId = data.patient,
                 !.expiresIn = data.expires_in,
                 !.tokenType = data.token_type,
                 !.grantedScope = data.scope,
                 !.lastEpicErrors = Null,
                 !.lastEpicTrace = Null]

\* The token endpoint answered 2xx. (A request to an undefined URL gets no such
\* answer: axios rejects it, or sends it to http://localhost/undefined.)
TokenOk(i) ==
    /\ At(i, "await_token")
    /\ reqs[i].out[1].url # Undefined
    /\ \E data \in TokenResponses(reqs[i].num) :
          End(i, With(Received(reqs[i], TRUE, data), storeTokens(reqs[i].sess, data)),
              Dashboard, FALSE)
    /\ UNCHANGED <<nreq, limit, issued, posted>>

\* error.response?.data of a failed token request: the server's error payload, or
\* nothing when there was no response.
ErrorPayloads == {<<"payload", 1>>, Undefined}

\* A faulty variant: the error payload is left out.
tokenExchangeFailedBare(data) ==
    Response(500, "token_exchange_failed",
             << <<"error", Lit("Token exchange failed")>>,
                <<"details", Lit("error.message")>> >>)

\* The response of the catch block of /callback.
tokenExchangeFailed(data) ==
    Response(500, "token_exchange_failed",
             << <<"error", Lit("Token exchange failed")>>,
                <<"details", Or(data, Lit("error.message"))>> >>)

\* The token request failed: the catch block answers 500.
TokenFail(i) ==
    /\ At(i, "await_token")
    /\ \E data \in ErrorPayloads :
          End(i, Received(reqs[i], FALSE, data), tokenExchangeFailed(data), FALSE)
    /\ UNCHANGED <<nreq, limit, issued, posted>>

----------------------------------------------------------------------------
\* Diagnostics helpers

\* { [key]: value }
Only(object, key, value) == Object([k \in {key} |-> value])

\* { ...(object || {}), [key]: value }
Spread(object, key, value) ==
    LET f == IF Truthy(object) THEN object[2] ELSE <<>>
    IN  Object([k \in DOMAIN f \cup {key} |-> IF k = key THEN value ELSE f[k]])

\* The diagnostics of an OperationOutcome, null for anything else or when no
\* issue has any.
\* The diagnostics of the issues, without the details.text of those that have none.
diagnosticsOnly(operationOutcome) ==
    IF ~Truthy(operationOutcome) \/ operationOutcome[1] # "OperationOutcome" THEN Null
    ELSE LET issue == operationOutcome[2]
             issues == IF issue[1] = "array" THEN issue[2] ELSE <<>>
             texts == [k \in 1..Len(issues) |-> issues[k].diagnostics]
             diags == SelectSeq(texts, Truthy)
         IN  IF diags # <<>> THEN Array(diags) ELSE Null

extractOperationOutcomeDiagnostics(operationOutcome) ==
    IF ~Truthy(operationOutcome) \/ operationOutcome[1] # "OperationOutcome" THEN Null
    ELSE LET issue == operationOutcome[2]
             issues == IF issue[1] = "array" THEN issue[2] ELSE <<>>
             texts == [k \in 1..Len(issues) |->
                          Or(issues[k].diagnostics, issues[k].details)]
             diags == SelectSeq(texts, Truthy)
         IN  IF diags # <<>> THEN Array(diags) ELSE Null

\* The phrase of the pattern, in any letter case (flag i).
Phrases == {NotAuthorizedFor, "CLIENT NOT AUTHORIZED FOR "}

RECURSIVE matchNotAuthorized(_, _)
\* msg.match(/Client not authorized for ([^.]+)\./i) from position i on: the
\* group of the leftmost match in a sequence of one element, none without a
\* match. The group runs up to the first period after the phrase and is not empty.
matchNotAuthorized(msg, i) ==
    IF i > Len(msg) THEN <<>>
    ELSE LET periods == {j \in (i + 1)..Len(msg) : msg[j] = "."}
             first == CHOOSE j \in periods : \A k \in periods : j <= k
         IN  IF msg[i] \in Phrases /\ periods # {} /\ first > i + 1
             THEN <<SubSeq(msg, i + 1, first - 1)>>
             ELSE matchNotAuthorized(msg, i + 1)

\* String.prototype.trim
trim(chars) ==
    LET inked == {k \in 1..Len(chars) : chars[k] # " "}
    IN  IF inked = {} THEN <<>>
        ELSE SubSeq(chars, CHOOSE a \in inked : \A k \in inked : a <= k,
                           CHOOSE b \in inked : \A k \in inked : b >= k)

RECURSIVE notAuthorizedTargets(_, _)
\* The set of targets after the first n messages, in insertion order.
notAuthorizedTargets(diagnostics, n) ==
    IF n = 0 THEN <<>>
    ELSE LET targets == notAuthorizedTargets(diagnostics, n - 1)
             msg == diagnostics[n]
             match == IF IsString(msg)
                      THEN matchNotAuthorized(IF msg = EmptyString THEN <<>> ELSE msg[2], 1)
                      ELSE <<>>
         IN  IF match = <<>> THEN targets
             ELSE LET target == Text(trim(match[1]))
                  IN  IF \E k \in 1..Len(targets) : targets[k] = target THEN targets
                      ELSE Append(targets, target)

\* The distinct targets of the 'Client not authorized for <target>.' messages.
extractNotAuthorizedTargets(diagnostics) ==
    IF diagnostics[1] # "array" THEN <<>>
    ELSE notAuthorizedTargets(diagnostics[2], Len(diagnostics[2]))

\* A header map: its entries in insertion order, each a name and a value. A
\* name is the sequence of its parts (the words the filter looks for, and what
\* stands between them), in the letter case it was sent in.
Headers(entries) == <<"headers", entries>>

\* The headers of an answer of the FHIR server to a request of the session: the
\* server repeats the request's Authorization header, sets a cookie, and sends a
\* content type and a request id.
FhirHeaders(sess) ==
    Headers(<< << <<"authorization">>, sess.accessToken >>,
               << <<"set-cookie">>, Lit("upstream-session") >>,
               << <<"content-type">>, Lit("application/fhir+json") >>,
               << <<"x-", "request", "-id">>, Lit("upstream-request") >> >>)

\* String(key).toLowerCase(), part by part.
toLowerCase(key) ==
    LET Lower(part) ==
            CASE part = "X-" -> "x-"
              [] part = "Authorization" -> "authorization"
              [] part = "Set-Cookie" -> "set-cookie"
              [] part = "Cookie" -> "cookie"
              [] part = "Content-Type" -> "content-type"
              [] part = "Request" -> "request"
              [] OTHER -> part
    IN  [k \in 1..Len(key) |-> Lower(key[k])]

denyList == {<<"set-cookie">>, <<"cookie">>, <<"authorization">>}

allowList ==
    {<<"content-type">>, <<"date">>, <<"server">>, <<"etag">>, <<"last-modified">>,
     <<"cache-control">>, <<"expires">>, <<"pragma">>, <<"vary">>,
     <<"content-location">>, <<"location">>, <<"content-encoding">>}

\* The name contains 'request', 'trace', 'correlation' or 'epic', or starts with 'x-'.
includesCorrelation(lowerKey) ==
    \/ \E k \in 1..Len(lowerKey) : lowerKey[k] \in {"request", "trace", "correlation", "epic"}
    \/ (lowerKey # <<>> /\ lowerKey[1] = "x-")

\* All headers, whatever their names.
everyHeader(headers) == IF headers[1] = "headers" THEN headers ELSE Headers(<<>>)

\* safe[lowerKey] = value: a key that is there keeps its place and changes value.
SetHeader(safe, lowerKey, value) ==
    IF \E k \in 1..Len(safe) : safe[k][1] = lowerKey
    THEN [k \in 1..Len(safe) |-> IF safe[k][1] = lowerKey THEN <<lowerKey, value>>
                                 ELSE safe[k]]
    ELSE Append(safe, <<lowerKey, value>>)

RECURSIVE pickSafeEntries(_, _)
\* The loop over the first n entries of the header map.
pickSafeEntries(entries, n) ==
    IF n = 0 THEN <<>>
    ELSE LET safe == pickSafeEntries(entries, n - 1)
             lowerKey == toLowerCase(entries[n][1])
         IN  IF lowerKey \in denyList THEN safe
             ELSE IF lowerKey \in allowList \/ includesCorrelation(lowerKey)
                  THEN SetHeader(safe, lowerKey, entries[n][2])
                  ELSE safe

\* The headers that are not denied and are allowed or correlating, under their
\* names in lower case; none when the argument is not a header map.
pickSafeResponseHeaders(headers) ==
    IF headers[1] # "headers" THEN Headers(<<>>)
    ELSE Headers(pickSafeEntries(headers[2], Len(headers[2])))

\* req.session.lastEpicTrace gets the trace of request `at` under key: the
\* request's url and patient parameter, and the status, the safe headers and the
\* OperationOutcome of the response (no headers when there was no response).
setLastEpicTrace(sess, key, at, status, operationOutcome) ==
    [sess EXCEPT !.lastEpicTrace =
        Spread(@, key, [at |-> at,
                        request |-> [url |-> sess.fhirBaseUrl,
                                     patient |-> sess.patientId],
                        status |-> status,
                        headers |-> pickSafeResponseHeaders(
                                        IF status = Null THEN Undefined
                                        ELSE FhirHeaders(sess)),
                        operationOutcome |-> operationOutcome])]

----------------------------------------------------------------------------
\* The answers of the FHIR server

\* response.data of a search that succeeded: a Bundle with two resources of the
\* type asked for around an OperationOutcome warning; one with OperationOutcome
\* entries, with and without diagnostics, and a resource of another type; or one
\* without entry. search identifies the search among those of a handler.
Bundles(resourceType, search) ==
    {[resourceType |-> Lit("Bundle"), type |-> Lit("searchset"), entry |-> e] :
        e \in {Array(<<Entry(resourceType, search, 1),
                       Resource("OperationOutcome", NotAuthorized),
                       Entry(resourceType, search, 2)>>),
               Array(<<Resource("OperationOutcome", OtherDiagnostic),
                       Resource("OperationOutcome", Undefined),
                       Entry("Provenance", search, 1)>>),
               Undefined}}

\* error.response of a request that failed: a FHIR denial, an error without a
\* FHIR payload, or no response at all (status 0).
ErrorResponses ==
    {[status |-> 403, data |-> Resource("OperationOutcome", NotAuthorized)],
     [status |-> 500, data |-> Resource("html", Undefined)],
     [status |-> 0, data |-> Undefined]}

\* error.response?.status || fallback
errorStatus(response, fallback) ==
    IF response.status # 0 THEN Number(response.status) ELSE fallback

\* The entries as the FHIR server sent them.
allEntries(data, resourceType) ==
    IF Truthy(data.entry) THEN data.entry[2] ELSE <<>>

\* The entries of the resource type asked for.
realEntries(data, resourceType) ==
    LET Real(e) == e[1] = resourceType
    IN  IF Truthy(data.entry) THEN SelectSeq(data.entry[2], Real) ELSE <<>>

RECURSIVE flatDiagnostics(_)
\* flatMap(e => extractOperationOutcomeDiagnostics(e.resource) || [])
flatDiagnostics(entries) ==
    IF entries = <<>> THEN <<>>
    ELSE LET diags == extractOperationOutcomeDiagnostics(Head(entries))
         IN  (IF diags = Null THEN <<>> ELSE diags[2]) \o flatDiagnostics(Tail(entries))

\* The diagnostics of the OperationOutcome entries.
outcomeWarnings(data) ==
    LET Outcome(e) == e[1] = "OperationOutcome"
        outcomes == IF Truthy(data.entry) THEN SelectSeq(data.entry[2], Outcome) ELSE <<>>
    IN  flatDiagnostics(outcomes)

\* A note: its fixed text, and the targets and the masked client id that the
\* template puts into it.
Note(text, targets, clientId) == <<text, targets, clientId>>

\* res.json of a searchset Bundle.
BundleResponse(entry, note) ==
    Response(200, "bundle",
             << <<"resourceType", Lit("Bundle")>>,
                <<"type", Lit("searchset")>>,
                <<"entry", Array(entry)>>,
                <<"total", Number(Len(entry))>>,
                <<"note", note>> >>)

\* res.json({ ...response.data, entry, total }): the envelope is the upstream one.
SpreadBundle(data, entry) ==
    Response(200, "bundle",
             << <<"resourceType", data.resourceType>>,
                <<"type", data.type>>,
                <<"entry", Array(entry)>>,
                <<"total", Number(Len(entry))>> >>)

\* The response of the catch block of /api/patient and /api/conditions.
fetchFailed(message, response) ==
    Response(errorStatus(response, Number(500))[2], "fetch_failed",
             << <<"error", Lit(message)>>,
                <<"details", Or(response.data, Lit("error.message"))>> >>)

----------------------------------------------------------------------------
\* GET /api/patient and GET /api/conditions, after the FHIR request

PatientOk(i) ==
    /\ At(i, "await_patient")
    /\ End(i, Received(reqs[i], TRUE, Resource("Patient", Undefined)),
           Response(200, "patient", << <<"resource", Resource("Patient", Undefined)>> >>),
           FALSE)
    /\ UNCHANGED <<nreq, limit, issued, posted>>

PatientFail(i) ==
    /\ At(i, "await_patient")
    /\ \E response \in ErrorResponses :
          End(i, Received(reqs[i], FALSE, response),
              fetchFailed("Failed to fetch patient", response), FALSE)
    /\ UNCHANGED <<nreq, limit, issued, posted>>

ConditionsOk(i) ==
    /\ At(i, "await_conditions")
    /\ \E data \in Bundles("Condition", "conditions") :
          End(i, Received(reqs[i], TRUE, data),
              SpreadBundle(data, realEntries(data, "Condition")), FALSE)
    /\ UNCHANGED <<nreq, limit, issued, posted>>

ConditionsFail(i) ==
    /\ At(i, "await_conditions")
    /\ \E response \in ErrorResponses :
          End(i, Received(reqs[i], FALSE, response),
              fetchFailed("Failed to fetch conditions", response), FALSE)
    /\ UNCHANGED <<nreq, limit, issued, posted>>

----------------------------------------------------------------------------
\* GET /api/medications, after the FHIR request

\* The search succeeded: the medications error is cleared and the trace recorded.
medicationsOk(req, data) ==
    setLastEpicTrace(
        [req.sess EXCEPT !.lastEpicErrors = Spread(@, "medications", Null)],
        "medications", req.num, Number(200), Undefined)

\* The catch block: the trace and the denial are recorded.
medicationsFailed(req, response) ==
    LET traced == setLastEpicTrace(
                      req.sess, "medications", req.num, errorStatus(response, Null),
                      IF response.data[1] = "OperationOutcome" THEN response.data ELSE Null)
    IN  [traced EXCEPT !.lastEpicErrors =
            Spread(@, "medications",
                   <<"denial", errorStatus(response, Null),
                     extractOperationOutcomeDiagnostics(response.data)>>)]

medicationsNote(response) ==
    LET diagnostics == extractOperationOutcomeDiagnostics(response.data)
        missingTargets == extractNotAuthorizedTargets(Or(diagnostics, Array(<<>>)))
    IN  IF missingTargets # <<>>
        THEN Note("Medications not available. Epic app is not authorized for",
                  missingTargets, Null)
        ELSE Note("Medications not available. Check /api/debug/epic", <<>>, Null)

MedicationsOk(i) ==
    /\ At(i, "await_medications")
    /\ \E data \in Bundles("MedicationRequest", "medications") :
          End(i, With(Received(reqs[i], TRUE, data), medicationsOk(reqs[i], data)),
              SpreadBundle(data, realEntries(data, "MedicationRequest")), FALSE)
    /\ UNCHANGED <<nreq, limit, issued, posted>>

MedicationsFail(i) ==
    /\ At(i, "await_medications")
    /\ \E response \in ErrorResponses :
          End(i, With(Received(reqs[i], FALSE, response),
                      medicationsFailed(reqs[i], response)),
              BundleResponse(<<>>, medicationsNote(response)), FALSE)
    /\ UNCHANGED <<nreq, limit, issued, posted>>

----------------------------------------------------------------------------
\* GET /api/observations, after a FHIR request: one request per category, in turn

\* The category whose search the handler awaits.
category(req) == categories[Len(req.out)]

\* A success that puts the category's entries in front of those collected.
categoryOkPrepended(req, data) ==
    LET warnings == outcomeWarnings(data)
    IN  [req EXCEPT
            !.observations = realEntries(data, "Observation") \o @,
            !.categoryErrors =
                IF warnings # <<>>
                THEN Append(@, [category |-> category(req), status |-> Number(200),
                                diagnostics |-> Array(warnings)])
                ELSE @,
            !.sess = setLastEpicTrace(@, category(req), req.num, Number(200), Undefined)]

\* A success whose OperationOutcome warnings are not recorded.
categoryOkUnwarned(req, data) ==
    [req EXCEPT
        !.observations = @ \o realEntries(data, "Observation"),
        !.sess = setLastEpicTrace(@, category(req), req.num, Number(200), Undefined)]

\* A category's search succeeded: its Observation entries are collected, its
\* OperationOutcome warnings recorded, the request traced.
categoryOk(req, data) ==
    LET warnings == outcomeWarnings(data)
    IN  [req EXCEPT
            !.observations = @ \o realEntries(data, "Observation"),
            !.categoryErrors =
                IF warnings # <<>>
                THEN Append(@, [category |-> category(req), status |-> Number(200),
                                diagnostics |-> Array(warnings)])
                ELSE @,
            !.sess = setLastEpicTrace(@, category(req), req.num, Number(200), Undefined)]

\* A failure that is traced and not recorded among the category errors.
categoryFailedUnrecorded(req, response) ==
    [req EXCEPT
        !.sess = setLastEpicTrace(
                     @, category(req), req.num, errorStatus(response, Null),
                     IF response.data[1] = "OperationOutcome" THEN response.data ELSE Null)]

\* A category's search failed: the inner catch records the error and the trace.
categoryFailed(req, response) ==
    [req EXCEPT
        !.categoryErrors =
            Append(@, [category |-> category(req),
                       status |-> errorStatus(response, Null),
                       diagnostics |-> extractOperationOutcomeDiagnostics(response.data)]),
        !.sess = setLastEpicTrace(
                     @, category(req), req.num, errorStatus(response, Null),
                     IF response.data[1] = "OperationOutcome" THEN response.data ELSE Null)]

\* categoryErrors.flatMap(e => Array.isArray(e.diagnostics) ? e.diagnostics : [])
RECURSIVE allDiagnostics(_)
allDiagnostics(categoryErrors) ==
    IF categoryErrors = <<>> THEN <<>>
    ELSE (IF Head(categoryErrors).diagnostics[1] = "array"
          THEN Head(categoryErrors).diagnostics[2] ELSE <<>>)
         \o allDiagnostics(Tail(categoryErrors))

\* The note of the bundle: null unless no observation was collected. The texts
\* that the denied categories are mapped to (category and first diagnostic) are
\* counted and not put in the note.
observationsNote(observations, categoryErrors) ==
    LET missingTargets == extractNotAuthorizedTargets(Array(allDiagnostics(categoryErrors)))
        Denied(e) == e.status \in {Number(401), Number(403), Number(400), Number(200)}
        denied == SelectSeq(categoryErrors, Denied)
    IN  IF observations # <<>> THEN Null
        ELSE IF missingTargets # <<>>
        THEN Note("No observations available. Epic app is not authorized for",
                  missingTargets, maskClientId(CLIENT_ID))
        ELSE IF denied # <<>>
        THEN Note("No observations available. Epic is blocking specific sub-resources",
                  <<>>, maskClientId(CLIENT_ID))
        ELSE Note("No observations available. Your Epic app may need additional API permissions",
                  <<>>, Null)

\* A loop that a failed category ends.
ObservationsStopAtFailure(i, req) ==
    IF Len(req.out) < Len(categories) /\ req.replies[Len(req.replies)].ok
    THEN /\ reqs' = [reqs EXCEPT ![i] =
                [req EXCEPT !.out = Append(@, FhirGet(req.sess, "/Observation",
                                                      Lit(categories[Len(req.out) + 1])))]]
         /\ UNCHANGED <<store, cookie, last, flows>>
    ELSE End(i, [req EXCEPT !.sess.lastEpicErrors =
                    Spread(@, "observations",
                           [attemptedCategories |-> categories,
                            categoryErrors |-> req.categoryErrors])],
             BundleResponse(req.observations,
                            observationsNote(req.observations, req.categoryErrors)),
             FALSE)

\* After a category: the next category's request, or after the last one the
\* errors are stored in the session and the bundle is returned.
ObservationsContinue(i, req) ==
    IF Len(req.out) < Len(categories)
    THEN /\ reqs' = [reqs EXCEPT ![i] =
                [req EXCEPT !.out = Append(@, FhirGet(req.sess, "/Observation",
                                                      Lit(categories[Len(req.out) + 1])))]]
         /\ UNCHANGED <<store, cookie, last, flows>>
    ELSE End(i, [req EXCEPT !.sess.lastEpicErrors =
                    Spread(@, "observations",
                           [attemptedCategories |-> categories,
                            categoryErrors |-> req.categoryErrors])],
             BundleResponse(req.observations,
                            observationsNote(req.observations, req.categoryErrors)),
             FALSE)

ObservationsOk(i) ==
    /\ At(i, "await_observations")
    /\ \E data \in Bundles("Observation", category(reqs[i])) :
          ObservationsContinue(i, Received(categoryOk(reqs[i], data), TRUE, data))
    /\ UNCHANGED <<nreq, limit, issued, posted>>

ObservationsFail(i) ==
    /\ At(i, "await_observations")
    /\ \E response \in ErrorResponses :
          ObservationsContinue(i, Received(categoryFailed(reqs[i], response), FALSE,
                                           response))
    /\ UNCHANGED <<nreq, limit, issued, posted>>

----------------------------------------------------------------------------
\* The debug sample routes, after a FHIR request

\* response.data?.entry || []
entriesOf(data) == IF Truthy(data.entry) THEN data.entry[2] ELSE <<>>

\* What a sample shows of the index-th entry: its index and its resource.
Sample(index, med) == <<"sample", index, med>>

\* res.json({ count, samples }) of the medications and conditions samples.
samplesOf(data) ==
    SampleResponse(<<>>, [k \in 1..Len(entriesOf(data)) |-> Sample(k, entriesOf(data)[k])])

\* res.status(500).json({ error: error.message })
sampleFailed == Response(500, "sample_failed", << <<"error", Lit("error.message")>> >>)

MedicationsSampleOk(i) ==
    /\ At(i, "await_medications_sample")
    /\ \E data \in Bundles("MedicationRequest", "medications") :
          End(i, Received(reqs[i], TRUE, data), samplesOf(data), FALSE)
    /\ UNCHANGED <<nreq, limit, issued, posted>>

MedicationsSampleFail(i) ==
    /\ At(i, "await_medications_sample")
    /\ \E response \in ErrorResponses :
          End(i, Received(reqs[i], FALSE, response), sampleFailed, FALSE)
    /\ UNCHANGED <<nreq, limit, issued, posted>>

ConditionsSampleOk(i) ==
    /\ At(i, "await_conditions_sample")
    /\ \E data \in Bundles("Condition", "conditions") :
          End(i, Received(reqs[i], TRUE, data), samplesOf(data), FALSE)
    /\ UNCHANGED <<nreq, limit, issued, posted>>

ConditionsSampleFail(i) ==
    /\ At(i, "await_conditions_sample")
    /\ \E response \in ErrorResponses :
          End(i, Received(reqs[i], FALSE, response), sampleFailed, FALSE)
    /\ UNCHANGED <<nreq, limit, issued, posted>>

\* The samples of a category that answered: of its first five entries, with the
\* category and the index.
categorySamples(req, data) ==
    LET entries == firstFive(entriesOf(data))
    IN  [req EXCEPT !.observations =
            @ \o [k \in 1..Len(entries) |-> <<"sample", category(req), k, entries[k]>>]]

\* The sample of a category that failed: its status and its OperationOutcome.
categorySampleFailed(req, response) ==
    [req EXCEPT !.observations =
        Append(@, <<"failed", category(req), errorStatus(response, Null),
                    IF response.data[1] = "OperationOutcome" THEN response.data
                    ELSE Null>>)]

\* After a category: the next category's request, or after the last one the
\* samples are returned.
ObservationsSampleContinue(i, req) ==
    IF Len(req.out) < Len(categories)
    THEN /\ reqs' = [reqs EXCEPT ![i] =
                [req EXCEPT !.out = Append(@, FhirGet(req.sess, "/Observation",
                                                      Lit(categories[Len(req.out) + 1])))]]
         /\ UNCHANGED <<store, cookie, last, flows>>
    ELSE End(i, req,
             SampleResponse(<< <<"mode", Lit("live")>>,
                               <<"fhirBaseUrl", req.sess.fhirBaseUrl>>,
                               <<"patientId", req.sess.patientId>> >>,
                            req.observations),
             FALSE)

ObservationsSampleOk(i) ==
    /\ At(i, "await_observations_sample")
    /\ \E data \in Bundles("Observation", category(reqs[i])) :
          ObservationsSampleContinue(i, Received(categorySamples(reqs[i], data), TRUE, data))
    /\ UNCHANGED <<nreq, limit, issued, posted>>

ObservationsSampleFail(i) ==
    /\ At(i, "await_observations_sample")
    /\ \E response \in ErrorResponses :
          ObservationsSampleContinue(i, Received(categorySampleFailed(reqs[i], response),
                                                 FALSE, response))
    /\ UNCHANGED <<nreq, limit, issued, posted>>

----------------------------------------------------------------------------
\* The server after start-up, the browser holding the cookie of an empty session.

Start(requests) ==
    /\ store = [s \in {0} |-> EmptySession]
    /\ cookie = 0
    /\ reqs = [i \in Slots |-> IdleRequest]
    /\ last = IdleRequest
    /\ nreq = 0
    /\ limit = requests
    /\ issued = {}
    /\ posted = {}
    /\ flows = [s \in Sids |-> <<0, 0>>]

Init == Start(MaxRequests)

Next ==
    \/ \E kind \in Kinds : Serve(kind)
    \/ \E kind \in Kinds : \E query \in Queries(kind) : Arrive(kind, query)
    \/ Logout
    \/ \E i \in Slots :
        \/ Run(i)
        \/ WellKnownOk(i)
        \/ WellKnownFail(i)
        \/ MetadataOk(i)
        \/ MetadataFail(i)
        \/ TokenOk(i)
        \/ TokenFail(i)
        \/ PatientOk(i)
        \/ PatientFail(i)
        \/ ConditionsOk(i)
        \/ ConditionsFail(i)
        \/ MedicationsOk(i)
        \/ MedicationsFail(i)
        \/ ObservationsOk(i)
        \/ ObservationsFail(i)

Spec == Init /\ [][Next]_vars

\* The same server with one more request in all.
InitDeep == Start(MaxRequests + 1)

\* There the browser follows the links of the authorization flow only, and the
\* discovery document is served.
FlowKinds == {"launch", "callback", "demo"}

NextDeep ==
    \/ \E kind \in FlowKinds : \E query \in Queries(kind) : Arrive(kind, query)
    \/ \E i \in Slots :
        \/ Run(i)
        \/ WellKnownOk(i)
        \/ TokenOk(i)
        \/ TokenFail(i)

SpecDeep == InitDeep /\ [][NextDeep]_vars

\* The authorization flow where every handler that was loaded runs and every
\* token request is answered or fails: the event loop runs a pending handler,
\* and a request to the authorization server ends with a response or an error.
SpecLive ==
    /\ Init
    /\ [][NextDeep]_vars
    /\ \A i \in Slots : WF_vars(Run(i)) /\ WF_vars(TokenOk(i) \/ TokenFail(i))

\* The same server with one more request in all, where the browser signs in
\* through the authorization flow, discovery and token exchange succeed, and the
\* dashboard fetches observations and medications.
FetchKinds == {"launch", "callback", "observations", "medications"}

NextFetch ==
    \/ \E kind \in FetchKinds : \E query \in Queries(kind) : Arrive(kind, query)
    \/ \E i \in Slots :
        \/ WellKnownOk(i)
        \/ TokenOk(i)
        \/ MedicationsOk(i)
        \/ MedicationsFail(i)
        \/ ObservationsOk(i)
        \/ ObservationsFail(i)

SpecFetch == InitDeep /\ [][NextFetch]_vars

\* The browser signs in or enters demo mode and asks for the debug samples.
SampleKinds == {"observationsSample", "medicationsSample", "conditionsSample"}

NextSamples ==
    \/ \E kind \in FlowKinds \cup SampleKinds :
          \E query \in Queries(kind) : Arrive(kind, query)
    \/ \E i \in Slots :
        \/ Run(i)
        \/ WellKnownOk(i)
        \/ TokenOk(i)
        \/ MedicationsSampleOk(i)
        \/ MedicationsSampleFail(i)
        \/ ConditionsSampleOk(i)
        \/ ConditionsSampleFail(i)
        \/ ObservationsSampleOk(i)
        \/ ObservationsSampleFail(i)

SpecSamples == Init /\ [][NextSamples]_vars

\* The browser signs in and fetches observations, and every search sent to the
\* FHIR server is answered or fails.
ObservationKinds == {"launch", "callback", "observations"}

NextObservations ==
    \/ \E kind \in ObservationKinds : \E query \in Queries(kind) : Arrive(kind, query)
    \/ \E i \in Slots :
        \/ WellKnownOk(i)
        \/ TokenOk(i)
        \/ ObservationsOk(i)
        \/ ObservationsFail(i)

SpecObservations ==
    /\ Init
    /\ [][NextObservations]_vars
    /\ \A i \in Slots : WF_vars(ObservationsOk(i) \/ ObservationsFail(i))

----------------------------------------------------------------------------
\* The helper functions, each called once on an argument of its domain: last
\* holds the call (kind the function, arg its argument, out what it returned),
\* the server is as after start-up and serves no request.

\* Longest client identifier tried.
MaxIdLen == 11

Strings(alphabet, n) == UNION {[1..k -> alphabet] : k \in 0..n}

\* Values of process.env.CLIENT_ID and of other arguments a caller may pass.
ClientIds ==
    {Undefined, Null, Number(7)} \cup {Text(chars) : chars \in Strings({"a", "."}, MaxIdLen)}

\* Most headers in a header map tried.
MaxHeaders == 2

\* Header names as a server may send them.
HeaderNames ==
    {<<"content-type">>, <<"Content-Type">>, <<"Set-Cookie">>, <<"cookie">>,
     <<"Authorization">>, <<"x-", "request", "-id">>, <<"X-", "authorization">>,
     <<"x-", "set-cookie">>, <<"proxy-", "authorization">>, <<"via">>}

\* Header maps of distinct names, each name with the value sent under it, and
\* arguments that are no header map.
HeaderMaps ==
    {Undefined, Null}
    \cup {Headers([k \in 1..Len(names) |-> <<names[k], <<"sent", names[k]>> >>]) :
             names \in {ns \in Strings(HeaderNames, MaxHeaders) :
                          \A j, k \in 1..Len(ns) : j # k => ns[j] # ns[k]}}

\* Most issues in an OperationOutcome tried, and most messages in a list.
MaxIssues == 2
MaxMessages == 2

\* Issues: with diagnostics, with details.text, with both, with empty ones, with none.
Issues ==
    {Issue(diagnostics, text) :
        diagnostics \in {Undefined, EmptyString, NotAuthorized, OtherDiagnostic},
        text \in {Undefined, EmptyString, Text(<<"Details">>)}}

\* Payloads of an answer: none, a number, a page of text, a resource that is not
\* an OperationOutcome, and OperationOutcomes without issue, with an issue that
\* is no array, and with an array of issues.
Payloads ==
    {Undefined, Null, Number(5), Text(<<"<html>">>), Resource("Patient", Undefined)}
    \cup {<<"OperationOutcome", issue>> : issue \in {Undefined, OtherDiagnostic}}
    \cup {<<"OperationOutcome", Array(issues)>> : issues \in Strings(Issues, MaxIssues)}

\* Elements of a list of diagnostics: messages of the pattern (a target of one
\* word, targets of an interaction, the phrase in capitals, blanks around the
\* target, no target), another text, the empty string, a number.
Messages ==
    {Text(<<NotAuthorizedFor, "Observation", ".">>),
     NotAuthorized,
     Text(<<NotAuthorizedFor, "Condition", ".", "read", ".">>),
     Text(<<"CLIENT NOT AUTHORIZED FOR ", "Observation", ".">>),
     Text(<<NotAuthorizedFor, "Observation", " ", ".">>),
     Text(<<NotAuthorizedFor, ".">>),
     OtherDiagnostic, EmptyString, Number(1)}

\* Arguments of extractNotAuthorizedTargets: lists of messages, and no list.
Diagnostics ==
    {Undefined, Null} \cup {Array(msgs) : msgs \in Strings(Messages, MaxMessages)}

Call(fn, x) == [kind |-> fn, pc |-> "called", arg |-> x, out |-> Undefined]

Return(fn, result) ==
    /\ last.kind = fn
    /\ last.pc = "called"
    /\ last' = [last EXCEPT !.pc = "returned", !.out = result]
    /\ UNCHANGED <<store, cookie, reqs, nreq, limit, issued, posted, flows>>

MaskClientId == Return("maskClientId", maskClientId(last.arg))

ExtractOperationOutcomeDiagnostics ==
    Return("extractOperationOutcomeDiagnostics",
           extractOperationOutcomeDiagnostics(last.arg))

ExtractNotAuthorizedTargets ==
    Return("extractNotAuthorizedTargets", extractNotAuthorizedTargets(last.arg))

PickSafeResponseHeaders ==
    Return("pickSafeResponseHeaders", pickSafeResponseHeaders(last.arg))

InitHelpers ==
    /\ store = [s \in {0} |-> EmptySession]
    /\ cookie = 0
    /\ reqs = [i \in Slots |-> IdleRequest]
    /\ nreq = 0
    /\ limit = 0
    /\ issued = {}
    /\ posted = {}
    /\ flows = [s \in Sids |-> <<0, 0>>]
    /\ \/ \E clientId \in ClientIds : last = Call("maskClientId", clientId)
       \/ \E headers \in HeaderMaps : last = Call("pickSafeResponseHeaders", headers)
       \/ \E payload \in Payloads :
              last = Call("extractOperationOutcomeDiagnostics", payload)
       \/ \E diagnostics \in Diagnostics :
              last = Call("extractNotAuthorizedTargets", diagnostics)

NextHelpers ==
    \/ MaskClientId
    \/ PickSafeResponseHeaders
    \/ ExtractOperationOutcomeDiagnostics
    \/ ExtractNotAuthorizedTargets

SpecHelpers == InitHelpers /\ [][NextHelpers]_vars

----------------------------------------------------------------------------
\* The EpicPatientSync component (Lightning web component). last holds the
\* component: its tracked fields, mounted once connectedCallback has run, and
\* calls, the Apex calls in flight in the order they were made. The server is as
\* after start-up and serves no request. (connectionStatusClass and
\* connectionIcon follow connectionStatus.)

\* Most Apex calls in flight at once.
MaxCalls == 2

EpicPatientSync ==
    [component |-> "EpicPatientSync", mounted |-> FALSE, calls |-> <<>>,
     isLoading |-> FALSE, loadingMessage |-> "Loading...", error |-> Null,
     connectionStatus |-> "Checking...", fhirVersion |-> "N/A", isConnected |-> FALSE,
     searchTerm |-> "", searchResults |-> <<>>, selectedPatient |-> Null,
     syncSuccess |-> FALSE, syncedRecordId |-> Null]

\* The server and the other variables stay as they are.
ServerIdle == UNCHANGED <<store, cookie, reqs, nreq, limit, issued, posted, flows>>

\* An event handler of the mounted component can run, and makes a call if
\* fewer than MaxCalls are in flight.
Mounted(name) == last.component = name /\ last.mounted
CanCall == Len(last.calls) < MaxCalls

\* The sequence without its k-th element.
Without(seq, k) == SubSeq(seq, 1, k - 1) \o SubSeq(seq, k + 1, Len(seq))

\* The k-th call in flight is a call of apex.
InFlight(name, k, apex) ==
    /\ last.component = name
    /\ k \in 1..Len(last.calls)
    /\ last.calls[k] = apex

\* The synchronous part of checkConnection, up to await getServerInfo().
checkConnection(this) ==
    [this EXCEPT !.isLoading = TRUE,
                 !.loadingMessage = "Connecting to Epic FHIR Server...",
                 !.error = Null,
                 !.calls = Append(@, "getServerInfo")]

setConnectionError(this, message) ==
    [this EXCEPT !.connectionStatus = "Disconnected", !.isConnected = FALSE,
                 !.error = message]

\* finally { this.isLoading = false } of the call that was the k-th in flight.
finally(this, k) == [this EXCEPT !.isLoading = FALSE, !.calls = Without(@, k)]

ConnectedCallback ==
    /\ last.component = "EpicPatientSync"
    /\ ~last.mounted
    /\ last' = checkConnection([last EXCEPT !.mounted = TRUE])
    /\ ServerIdle

refreshConnection ==
    /\ Mounted("EpicPatientSync")
    /\ CanCall
    /\ last' = checkConnection([last EXCEPT !.searchResults = <<>>,
                                            !.selectedPatient = Null,
                                            !.syncSuccess = FALSE])
    /\ ServerIdle

\* getServerInfo() answers, with or without an error in the answer, or fails.
ServerInfoAnswers(k) ==
    /\ InFlight("EpicPatientSync", k, "getServerInfo")
    /\ \/ last' = finally(setConnectionError(last, Lit("Connection failed")), k)
       \/ last' = finally([last EXCEPT !.connectionStatus = "Connected",
                                       !.fhirVersion = "R4",
                                       !.isConnected = TRUE], k)
       \/ last' = finally(setConnectionError(last, Lit("Unknown error")), k)
    /\ ServerIdle

handleSearchTermChange ==
    /\ Mounted("EpicPatientSync")
    /\ \E value \in {"", "a", "ab"} : last' = [last EXCEPT !.searchTerm = value]
    /\ ServerIdle

isSearchDisabled(this) ==
    this.isLoading \/ ~this.isConnected \/ this.searchTerm \in {"", "a"}

searchPatients ==
    /\ Mounted("EpicPatientSync")
    /\ CanCall
    /\ ~isSearchDisabled(last)
    /\ last' = [last EXCEPT !.isLoading = TRUE,
                            !.loadingMessage = "Searching Epic...",
                            !.error = Null,
                            !.selectedPatient = Null,
                            !.syncSuccess = FALSE,
                            !.calls = Append(@, "searchPatients")]
    /\ ServerIdle

\* searchPatients() answers with patients or with none, or fails.
SearchAnswers(k) ==
    /\ InFlight("EpicPatientSync", k, "searchPatients")
    /\ \/ \E results \in {<<>>, <<Lit("patient")>>} :
             last' = finally([last EXCEPT !.searchResults = results], k)
       \/ last' = finally([last EXCEPT !.error = Lit("Search failed"),
                                       !.searchResults = <<>>], k)
    /\ ServerIdle

\* A click on a patient of the search results.
handleViewPatient ==
    /\ Mounted("EpicPatientSync")
    /\ CanCall
    /\ last.searchResults # <<>>
    /\ last' = [last EXCEPT !.isLoading = TRUE,
                            !.loadingMessage = "Loading patient details...",
                            !.error = Null,
                            !.calls = Append(@, "getPatientById")]
    /\ ServerIdle

ViewAnswers(k) ==
    /\ InFlight("EpicPatientSync", k, "getPatientById")
    /\ \/ last' = finally([last EXCEPT !.selectedPatient = Lit("patient")], k)
       \/ last' = finally([last EXCEPT !.error = Lit("Failed to load patient")], k)
    /\ ServerIdle

\* A click on the sync button of a patient shown.
handleSyncPatient ==
    /\ Mounted("EpicPatientSync")
    /\ CanCall
    /\ last.searchResults # <<>> \/ last.selectedPatient # Null
    /\ last' = [last EXCEPT !.isLoading = TRUE,
                            !.loadingMessage = "Syncing patient to Salesforce...",
                            !.error = Null,
                            !.syncSuccess = FALSE,
                            !.calls = Append(@, "syncPatientToSalesforce")]
    /\ ServerIdle

SyncAnswers(k) ==
    /\ InFlight("EpicPatientSync", k, "syncPatientToSalesforce")
    /\ \/ last' = finally([last EXCEPT !.syncedRecordId = Lit("record"),
                                       !.syncSuccess = TRUE], k)
       \/ last' = finally([last EXCEPT !.error = Lit("Sync failed")], k)
    /\ ServerIdle

clearSelectedPatient ==
    /\ Mounted("EpicPatientSync")
    /\ last.selectedPatient # Null
    /\ last' = [last EXCEPT !.selectedPatient = Null]
    /\ ServerIdle

----------------------------------------------------------------------------
\* The EpicConnectivityCheck component. connectedCallback runs checkConnection
\* once, when the component is inserted; calls holds the Apex call the run is
\* waiting for. (statusClass follows connectionStatus.)

EpicConnectivityCheck ==
    [component |-> "EpicConnectivityCheck", mounted |-> FALSE, calls |-> <<>>,
     isLoading |-> FALSE, connectionStatus |-> "", serverInfo |-> Null,
     resources |-> <<>>, rawMetadata |-> EmptyString, showRawJson |-> FALSE,
     error |-> Null]

\* The messages of a server info carrying an error and of a rejection:
\* message, or err.body?.message || err.message.
ErrorMessages == {Undefined, EmptyString, Lit("Callout failed")}

\* A handleError that leaves connectionStatus as it is.
handleErrorKeepsStatus(this, errorInfo) ==
    [this EXCEPT !.error = Or(errorInfo.message, Lit("Unknown error occurred"))]

handleError(this, errorInfo) ==
    [this EXCEPT !.connectionStatus = "Connection Failed",
                 !.error = Or(errorInfo.message, Lit("Unknown error occurred"))]

\* The run goes on to await the next call.
awaitNext(this, apex) == [this EXCEPT !.calls = <<apex>>]

\* catch (err) { this.handleError(...) } finally { this.isLoading = false }
catch(this, message) == finally(handleError(this, [message |-> message]), 1)

ConnectivityConnectedCallback ==
    /\ last.component = "EpicConnectivityCheck"
    /\ ~last.mounted
    /\ last' = [last EXCEPT !.mounted = TRUE,
                            !.isLoading = TRUE,
                            !.error = Null,
                            !.calls = <<"getServerInfo">>]
    /\ ServerIdle

\* getServerInfo() answers with the server's description.
GetServerInfoOk ==
    /\ InFlight("EpicConnectivityCheck", 1, "getServerInfo")
    /\ last' = awaitNext([last EXCEPT !.serverInfo = Lit("info"),
                                      !.connectionStatus = "Connected"],
                         "getSupportedResources")
    /\ ServerIdle

\* getServerInfo() answers with an error in the description, with null, or fails.
GetServerInfoFail ==
    /\ InFlight("EpicConnectivityCheck", 1, "getServerInfo")
    /\ \E message \in ErrorMessages :
          \/ last' = finally(handleError(last, [message |-> message]), 1)
          \/ last' = catch(last, message)
          \/ last' = catch(last, Lit("Cannot read properties of null"))
    /\ ServerIdle

GetSupportedResourcesOk ==
    /\ InFlight("EpicConnectivityCheck", 1, "getSupportedResources")
    /\ \E resourceList \in {<<>>, <<Lit("Patient")>>} :
          last' = awaitNext([last EXCEPT !.resources = resourceList], "getEpicMetadata")
    /\ ServerIdle

\* getSupportedResources() fails, or answers with null, which has no map.
GetSupportedResourcesFail ==
    /\ InFlight("EpicConnectivityCheck", 1, "getSupportedResources")
    /\ \E message \in ErrorMessages \cup {Lit("Cannot read properties of null")} :
          last' = catch(last, message)
    /\ ServerIdle

GetEpicMetadataOk ==
    /\ InFlight("EpicConnectivityCheck", 1, "getEpicMetadata")
    /\ last' = finally([last EXCEPT !.rawMetadata = Lit("metadata")], 1)
    /\ ServerIdle

\* getEpicMetadata() fails, or answers with what JSON.parse rejects.
GetEpicMetadataFail ==
    /\ InFlight("EpicConnectivityCheck", 1, "getEpicMetadata")
    /\ \E message \in ErrorMessages \cup {Lit("Unexpected token")} :
          last' = catch(last, message)
    /\ ServerIdle

toggleRawJson ==
    /\ Mounted("EpicConnectivityCheck")
    /\ last' = [last EXCEPT !.showRawJson = ~@]
    /\ ServerIdle

\* The two components, each on a page of its own.
InitComponents ==
    /\ store = [s \in {0} |-> EmptySession]
    /\ cookie = 0
    /\ reqs = [i \in Slots |-> IdleRequest]
    /\ last \in {EpicPatientSync, EpicConnectivityCheck}
    /\ nreq = 0
    /\ limit = 0
    /\ issued = {}
    /\ posted = {}
    /\ flows = [s \in Sids |-> <<0, 0>>]

NextComponents ==
    \/ ConnectedCallback
    \/ refreshConnection
    \/ handleSearchTermChange
    \/ searchPatients
    \/ handleViewPatient
    \/ handleSyncPatient
    \/ clearSelectedPatient
    \/ \E k \in 1..MaxCalls : \/ ServerInfoAnswers(k)
                              \/ SearchAnswers(k)
                              \/ ViewAnswers(k)
                              \/ SyncAnswers(k)
    \/ ConnectivityConnectedCallback
    \/ GetServerInfoOk
    \/ GetServerInfoFail
    \/ GetSupportedResourcesOk
    \/ GetSupportedResourcesFail
    \/ GetEpicMetadataOk
    \/ GetEpicMetadataFail
    \/ toggleRawJson

SpecComponents == InitComponents /\ [][NextComponents]_vars

----------------------------------------------------------------------------
\* Properties

\* The request of a route that arrives now, as it is once the synchronous part of
\* its handler has run.
Arriving(kind, query) ==
    LET h == Served(kind, query)
    IN  [Incoming(kind, query, Loaded) EXCEPT
            !.pc = h.pc, !.sess = h.sess, !.out = h.out, !.res = h.res]

\* P holds of every request of the state: of each one that can arrive, of those
\* in progress and of the one answered last.
Every(P(_)) ==
    /\ \A kind \in Kinds : \A query \in Queries(kind) : P(Arriving(kind, query))
    /\ \A i \in Busy : P(reqs[i])
    /\ last.kind # "none" => P(last)

Answered400(r, error) ==
    /\ r.res.status = 400
    /\ Param(r.res.body, "error") = error

\* C1 for one request.
MismatchRejected(r) ==
    (r.kind = "callback" /\ r.query.error = Undefined /\ r.query.state # r.orig.state)
    => /\ r.out = <<>>
       /\ r.pc = "done" => Answered400(r, Lit("State mismatch - possible CSRF attack"))

\* C1: a callback without error parameter whose state parameter differs from the
\* state of its session makes no token request and is answered 400 'State
\* mismatch - possible CSRF attack'.
C1_StateMismatchRejected == Every(MismatchRejected)

\* C1 witness: a launch has stored a state in the browser's session, and a
\* callback bringing another state and no error is answered state mismatch.
C1_Witness ==
    /\ Truthy(Loaded.sess.state)
    /\ \E query \in CallbackQueries :
        /\ query.error = Undefined
        /\ query.state # Loaded.sess.state
        /\ Arriving("callback", query).res = StateMismatch

\* C2 (as claimed): no callback sends a token request with a code verifier that
\* an earlier token request carried, no launch having arrived or ended since.
\* The code does not keep it: /callback never clears state and codeVerifier, so
\* launch, callback, callback sends the verifier twice.
C2_VerifierSingleUse ==
    \A i \in Slots : reqs[i].replay => ~Truthy(reqs[i].out[1].code_verifier)

\* C3 (as claimed): a callback on a session in which no launch has stored a
\* state makes no token request. The code does not keep it: without a state
\* parameter undefined !== undefined is false and the token request is made.
C3_NoExchangeWithoutLaunch ==
    \A i \in Slots :
        (reqs[i].kind = "callback" /\ reqs[i].orig.state = Undefined)
        => reqs[i].out = <<>>

\* C4 for one request, the error parameter being `present`.
ErrorDenied(r, present) ==
    (r.kind = "callback" /\ present)
    => /\ r.out = <<>>
       /\ r.sess = r.orig
       /\ r.pc = "done" =>
            /\ Answered400(r, r.query.error)
            /\ Param(r.res.body, "error_description") = r.query.error_description

NonEmptyErrorDenied(r) == ErrorDenied(r, Truthy(r.query.error))

AnyErrorDenied(r) == ErrorDenied(r, r.query.error # Undefined)

\* C4 (amended): a callback with a non-empty error parameter is answered 400
\* with that error and its description, whatever its state parameter is; it makes
\* no token request and leaves its session as it was.
C4_NonEmptyErrorDenied == Every(NonEmptyErrorDenied)

\* C4 (as claimed): the same of every callback that carries an error parameter.
\* It fails for the empty error (?error=), which if (error) takes as absent.
C4_AnyErrorDenied == Every(AnyErrorDenied)

\* C4 witness: a callback with an error and the state of its session, which a
\* launch stored, is answered authorization denied.
C4_Witness ==
    /\ Truthy(Loaded.sess.state)
    /\ \E query \in CallbackQueries :
        /\ Truthy(query.error)
        /\ query.state = Loaded.sess.state
        /\ Arriving("callback", query).res.tag = "authorization_denied"

\* C5 (as claimed): of two launches that redirected on a session with no callback
\* arriving in between, the state of the older one is not accepted by a callback.
\* The code does not keep it: a request that loaded the session before the newer
\* launch ended and is answered after it saves the older flow state back.
C5_OlderStateRejected ==
    \A i \in Slots :
        (reqs[i].kind = "callback" /\ reqs[i].flow[1] # 0
            /\ reqs[i].query.state = generateState(reqs[i].flow[1], 0))
        => reqs[i].out = <<>>

\* C6 (as claimed): the code verifier of every token request hashes to the code
\* challenge of the authorization redirect that issued the callback's state.
\* It fails with C3: the token request of a session without launch carries an
\* undefined verifier and no redirect issued its state.
C6_VerifierMatchesChallenge ==
    \A i \in Slots :
        (reqs[i].kind = "callback" /\ Len(reqs[i].out) > 0)
        => <<reqs[i].query.state, generateCodeChallenge(reqs[i].out[1].code_verifier)>>
                \in issued

\* A value is a code verifier.
IsVerifier(v) == v[1] = "verifier"

\* C7 for one request.
VerifierKept(r) ==
    /\ \A k \in 1..Len(r.res.body) : ~IsVerifier(r.res.body[k][2])
    /\ \A k \in 1..Len(r.out) :
        LET o == r.out[k]
        IN  /\ \A v \in {o.url, o.code, o.bearer, o.patient, o.category} : ~IsVerifier(v)
            /\ IsVerifier(o.code_verifier)
                => (r.kind = "callback" /\ o.method = "POST"
                    /\ o.url = r.orig.tokenEndpoint)

\* C7: the code verifier leaves the server only as the code_verifier field of a
\* token request to the session's token endpoint: no response (the launch
\* redirect, the callback's errors, /api/session, /api/debug/epic, the resource
\* endpoints) and no other outbound request holds one.
C7_VerifierOnlyInTokenRequest == Every(VerifierKept)

\* C7 witness: a token request has carried the verifier the browser's session
\* still holds, and /api/debug/epic and /api/session answer 200 on that session.
C7_Witness ==
    /\ last.kind = "callback"
    /\ Len(last.out) = 1
    /\ IsVerifier(last.out[1].code_verifier)
    /\ Loaded.sess.codeVerifier = last.out[1].code_verifier
    /\ Arriving("debug", NoQuery).res.status = 200
    /\ Arriving("session", NoQuery).res.status = 200

\* C8 for one request.
TokensStored(r) ==
    (r.kind = "callback" /\ r.pc = "done" /\ Len(r.replies) = 1 /\ r.replies[1].ok)
    => LET data == r.replies[1].data
       IN  /\ r.sess.accessToken = data.access_token
           /\ r.sess.refreshToken = data.refresh_token
           /\ r.sess.patientId = data.patient
           /\ r.sess.expiresIn = data.expires_in
           /\ r.sess.tokenType = data.token_type
           /\ r.sess.grantedScope = data.scope
           /\ r.sess.lastEpicErrors = Null
           /\ r.sess.lastEpicTrace = Null
           /\ r.res.status = 302
           /\ Param(r.res.body, "location") = Lit("/dashboard")

\* C8: when the token request of a callback succeeds, the session of the callback
\* holds the access token, refresh token, patient, expiry, token type and scope
\* of the token response, its lastEpicErrors and lastEpicTrace are null, and the
\* response redirects to /dashboard.
C8_TokensStored == Every(TokensStored)

\* C8 witness: a callback whose token request was answered with every field.
C8_Witness ==
    /\ last.kind = "callback"
    /\ Len(last.replies) = 1
    /\ last.replies[1].ok
    /\ Truthy(last.replies[1].data.refresh_token)
    /\ last.res = Dashboard

\* The session fields a token exchange sets.
Tokens(sess) == <<sess.accessToken, sess.refreshToken, sess.patientId, sess.grantedScope>>

\* C9 for one request.
ExchangeFailed(r) ==
    (r.kind = "callback" /\ r.pc = "done" /\ Len(r.replies) = 1 /\ ~r.replies[1].ok)
    => /\ r.res.status = 500
       /\ Param(r.res.body, "error") = Lit("Token exchange failed")
       /\ Truthy(r.replies[1].data) => Param(r.res.body, "details") = r.replies[1].data
       /\ Tokens(r.sess) = Tokens(r.orig)

\* C9: when the token request of a callback fails, the callback is answered 500
\* 'Token exchange failed' with the error payload of the token endpoint as
\* details, and accessToken, refreshToken, patientId and grantedScope of its
\* session are as they were.
C9_ExchangeFailed == Every(ExchangeFailed)

\* C9 witness: the token request of a callback on a session that holds an access
\* token failed with an error payload.
C9_Witness ==
    /\ last.kind = "callback"
    /\ Len(last.replies) = 1
    /\ ~last.replies[1].ok
    /\ Truthy(last.replies[1].data)
    /\ Truthy(last.orig.accessToken)

\* The routes that require an access token.
ApiKinds == {"patient", "observations", "conditions", "medications", "session", "debug"}

\* C10 for one request.
Unauthenticated(r) ==
    (r.kind \in ApiKinds /\ r.orig.accessToken = Undefined)
    => /\ r.out = <<>>
       /\ r.sess = r.orig
       /\ r.pc = "done" =>
            /\ r.res.status = 401
            /\ r.res.body = << <<"error", Lit("Not authenticated")>> >>

\* C10: on a session without access token, /api/patient, /api/observations,
\* /api/conditions, /api/medications, /api/session and /api/debug/epic answer
\* 401 'Not authenticated', make no outbound request and leave the session as
\* it was.
C10_Unauthenticated == Every(Unauthenticated)

\* C10 witness: after a launch and a failed token exchange the browser's session
\* holds flow state and no access token, and each of the six routes answers 401.
C10_Witness ==
    /\ last.kind = "callback"
    /\ last.res.status = 500
    /\ Truthy(Loaded.sess.state)
    /\ Loaded.sess.accessToken = Undefined
    /\ \A kind \in ApiKinds : Arriving(kind, NoQuery).res = NotAuthenticated

----------------------------------------------------------------------------
ResourceKinds == {"patient", "observations", "conditions", "medications"}

\* The key of DEMO_DATA that each resource endpoint answers with.
DemoKey(kind) ==
    CASE kind = "patient" -> "Patient"
      [] kind = "observations" -> "Observations"
      [] kind = "conditions" -> "Conditions"
      [] kind = "medications" -> "Medications"

\* C11 for one request.
DemoServed(r) ==
    (/\ r.kind \in ResourceKinds
     /\ Truthy(r.orig.accessToken)
     /\ Truthy(r.orig.demoMode))
    => /\ r.out = <<>>
       /\ r.pc = "done"
       /\ r.res = DemoData(DemoKey(r.kind))

\* C11: on a session in demo mode, /api/patient, /api/observations,
\* /api/conditions and /api/medications answer the fixed demo data of their
\* resource type and send no outbound request.
C11_DemoServed == Every(DemoServed)

\* C11 witness: /demo was answered last, the browser's session is in demo mode
\* and each of the four endpoints answers its demo data.
C11_Witness ==
    /\ last.kind = "demo"
    /\ Truthy(Loaded.sess.demoMode)
    /\ \A kind \in ResourceKinds :
          /\ Arriving(kind, NoQuery).res = DemoData(DemoKey(kind))
          /\ Arriving(kind, NoQuery).out = <<>>

----------------------------------------------------------------------------
\* /api/session on the browser's session is answered 401.
SessionAnswers401 == Arriving("session", NoQuery).res.status = 401

\* C12: after a logout on an authenticated session, /api/session on that session
\* is answered 401 until a callback or /demo is answered: the logout leaves it
\* answering 401, and so does the next request to finish unless it is a callback
\* or /demo.
C12_LoggedOutUntilLogin ==
    [][(/\ last.kind = "logout"
        /\ Truthy(last.orig.accessToken)
        /\ last'.kind \notin {"callback", "demo"})
       => SessionAnswers401']_vars

----------------------------------------------------------------------------
\* r is a request for kind on an authenticated session that is not in demo mode.
Live(r, kind) ==
    /\ r.kind = kind
    /\ Truthy(r.orig.accessToken)
    /\ ~Truthy(r.orig.demoMode)

\* C13 for one request.
EveryCategoryQueried(r) ==
    Live(r, "observations")
    => /\ Len(r.out) <= Len(categories)
       /\ \A k \in 1..Len(r.out) :
             r.out[k] = FhirGet(r.orig, "/Observation", Lit(categories[k]))
       /\ r.pc = "done" => /\ Len(r.out) = Len(categories)
                           /\ Len(r.replies) = Len(categories)
       /\ r.pc # "done" => Len(r.replies) = Len(r.out) - 1

\* C13: a live /api/observations request queries every configured category
\* exactly once, in turn, and has queried and heard from all of them when its
\* response is sent, whether the earlier categories succeeded or failed.
C13_EveryCategoryQueried == Every(EveryCategoryQueried)

\* C13 witness: a live /api/observations request was answered whose first
\* category failed with an HTTP error and whose second category was queried and
\* succeeded with an embedded OperationOutcome.
C13_Witness ==
    /\ Live(last, "observations")
    /\ last.pc = "done"
    /\ ~last.replies[1].ok
    /\ last.replies[1].data.status = 403
    /\ last.out[2].category = Lit(categories[2])
    /\ last.replies[2].ok
    /\ outcomeWarnings(last.replies[2].data) = <<OtherDiagnostic>>

----------------------------------------------------------------------------
\* The Observation entries of a category's answer, none when its search failed.
ObservationEntries(reply) ==
    LET IsObservation(e) == e[1] = "Observation"
    IN  IF reply.ok /\ Truthy(reply.data.entry)
        THEN SelectSeq(reply.data.entry[2], IsObservation)
        ELSE <<>>

\* The Observation entries of the categories' answers, one category after another.
RECURSIVE Concatenated(_)
Concatenated(replies) ==
    IF replies = <<>> THEN <<>>
    ELSE ObservationEntries(Head(replies)) \o Concatenated(Tail(replies))

Range(seq) == {seq[k] : k \in 1..Len(seq)}

\* The category errors that a request has put in its session.
StoredCategoryErrors(r) == r.sess.lastEpicErrors[2]["observations"].categoryErrors

\* C14 for one request.
PartialBundle(r) ==
    (Live(r, "observations") /\ r.pc = "done")
    => LET entry == Param(r.res.body, "entry")[2]
           errors == StoredCategoryErrors(r)
       IN  /\ r.res.status = 200
           /\ Param(r.res.body, "resourceType") = Lit("Bundle")
           /\ Range(entry) = Range(Concatenated(r.replies))
           /\ Len(entry) = Len(Concatenated(r.replies))
           /\ Param(r.res.body, "total") = Number(Len(entry))
           /\ \A k \in 1..Len(categories) :
                 ~r.replies[k].ok =>
                    LET response == r.replies[k].data
                        Of(e) == e.category = categories[k]
                        recorded == SelectSeq(errors, Of)
                    IN  /\ Len(recorded) = 1
                        /\ recorded[1].status =
                              IF response.status = 0 THEN Null
                              ELSE Number(response.status)
                        /\ recorded[1].diagnostics =
                              extractOperationOutcomeDiagnostics(response.data)

\* C14: a live /api/observations request, whichever of its categories' searches
\* succeed and fail, is answered 200 with a Bundle whose entries are exactly the
\* Observation entries of the categories whose search succeeded and whose total
\* is their number, and the errors it stores in its session hold exactly one
\* entry for each category whose search failed, with the HTTP status of the
\* failure and the diagnostics extracted from it.
C14_PartialBundle == Every(PartialBundle)

\* C14 witness: laboratory succeeded with two Observation entries and
\* vital-signs failed with 403: two entries, total 2, one category error.
C14_Witness ==
    /\ Live(last, "observations")
    /\ last.pc = "done"
    /\ last.replies[1].ok
    /\ ~last.replies[2].ok
    /\ last.replies[2].data.status = 403
    /\ Param(last.res.body, "total") = Number(2)
    /\ Len(SelectSeq(StoredCategoryErrors(last), LAMBDA e : e.status = Number(403))) = 1

\* C15 for one request.
CategoryOrder(r) ==
    (Live(r, "observations") /\ r.pc = "done")
    => Param(r.res.body, "entry") = Array(Concatenated(r.replies))

\* C15: the entries of the bundle of a live /api/observations request are the
\* Observation entries of the first category's answer in the order of that
\* answer, followed by those of the second category's answer in its order.
C15_CategoryOrder == Every(CategoryOrder)

\* C15 witness: both categories answered two Observation entries around a
\* warning, and the bundle lists laboratory's two before those of vital-signs.
C15_Witness ==
    /\ Live(last, "observations")
    /\ last.pc = "done"
    /\ Param(last.res.body, "entry") =
          Array(<<Entry("Observation", categories[1], 1),
                  Entry("Observation", categories[1], 2),
                  Entry("Observation", categories[2], 1),
                  Entry("Observation", categories[2], 2)>>)

----------------------------------------------------------------------------
\* The resource type that each bundle endpoint asks the FHIR server for.
RequestedType(kind) ==
    CASE kind = "observations" -> "Observation"
      [] kind = "conditions" -> "Condition"
      [] kind = "medications" -> "MedicationRequest"

BundleKinds == {"observations", "conditions", "medications"}

\* C16 for one request.
OnlyRequestedType(r) ==
    \A kind \in BundleKinds :
        (Live(r, kind) /\ r.pc = "done" /\ r.res.tag = "bundle")
        => \A e \in Range(Param(r.res.body, "entry")[2]) : e[1] = RequestedType(kind)

\* C16: every entry of a bundle that /api/observations, /api/conditions or
\* /api/medications returns on a live session is of the resource type the
\* endpoint asks for: OperationOutcome entries and entries of other types of the
\* upstream answers are left out.
C16_OnlyRequestedType == Every(OnlyRequestedType)

\* C16 witness: a live request of one of the three endpoints was answered a
\* bundle after an upstream answer that carried an OperationOutcome entry
\* between two entries of the type asked for, and the bundle holds those two.
C16_Witness ==
    \E kind \in BundleKinds :
        /\ Live(last, kind)
        /\ last.pc = "done"
        /\ \E k \in 1..Len(last.replies) :
              /\ last.replies[k].ok
              /\ Truthy(last.replies[k].data.entry)
              /\ \E e \in Range(last.replies[k].data.entry[2]) : e[1] = "OperationOutcome"
              /\ \E e \in Range(last.replies[k].data.entry[2]) : e[1] = RequestedType(kind)
        /\ Len(Param(last.res.body, "entry")[2]) >= 2

----------------------------------------------------------------------------
\* The diagnostics of the OperationOutcome entries of the answers to a request.
EmbeddedDiagnostics(r) ==
    UNION {Range(outcomeWarnings(r.replies[k].data)) :
              k \in {j \in 1..Len(r.replies) : r.replies[j].ok}}

\* The note says what the diagnostic says: it names the target of a 'Client not
\* authorized for <target>.' diagnostic, or holds the text of another one.
Conveys(note, diagnostic) ==
    /\ note # Null
    /\ \/ diagnostic = NotAuthorized /\ note[2] # <<>>
       \/ diagnostic \in Range(note[2])

\* C17 for one request.
NoteCarriesDiagnostics(r) ==
    (Live(r, "observations") /\ r.pc = "done")
    => LET entry == Param(r.res.body, "entry")[2]
           note == Param(r.res.body, "note")
       IN  /\ note = Null <=> entry # <<>>
           /\ entry = <<>> => \A d \in EmbeddedDiagnostics(r) : Conveys(note, d)

\* C17: the note of the bundle of a live /api/observations request is null
\* exactly when the bundle has an entry, and when the bundle has none the note
\* carries the diagnostics of every OperationOutcome entry of the upstream
\* answers.
C17_NoteCarriesDiagnostics == Every(NoteCarriesDiagnostics)

----------------------------------------------------------------------------
\* A session object has the key.
Has(object, key) == Truthy(object) /\ key \in DOMAIN object[2]

\* Two session objects agree on the key: both lack it, or both hold one value.
SameUnder(key, before, after) ==
    /\ Has(before, key) <=> Has(after, key)
    /\ Has(before, key) => before[2][key] = after[2][key]

\* The keys of the stored diagnostics and of the stored trace that each fetch
\* writes.
ObservationsKeys == {"observations"} \cup Range(categories)

MedicationsKeys == {"medications"}

\* The fetch r leaves the session's diagnostics and trace under keys as it
\* loaded them.
KeysKept(r, keys) ==
    \A key \in keys :
        /\ SameUnder(key, r.orig.lastEpicErrors, r.sess.lastEpicErrors)
        /\ SameUnder(key, r.orig.lastEpicTrace, r.sess.lastEpicTrace)

\* C18 for one request.
SiblingKeysKept(r) ==
    /\ Live(r, "observations") => KeysKept(r, MedicationsKeys)
    /\ Live(r, "medications") => KeysKept(r, ObservationsKeys)

\* C18: an observations fetch leaves in its session the medications key of the
\* diagnostics and of the trace as it found them, and a medications fetch,
\* succeeding or failing, leaves the observations keys of both as it found them.
C18_SiblingKeysKept == Every(SiblingKeysKept)

\* C18 witness: an observations fetch was answered on a session that held the
\* denial and the trace of a failed medications fetch, and its session holds
\* them still beside the observations diagnostics.
C18_Witness ==
    /\ Live(last, "observations")
    /\ last.pc = "done"
    /\ Has(last.orig.lastEpicErrors, "medications")
    /\ last.orig.lastEpicErrors[2]["medications"] # Null
    /\ Has(last.orig.lastEpicTrace, "medications")
    /\ Has(last.sess.lastEpicErrors, "observations")
    /\ KeysKept(last, MedicationsKeys)

----------------------------------------------------------------------------
\* The value is an access token, a refresh token or the client identifier.
IsSecret(v) == v[1] \in {"access", "refresh", "demo-token"} \/ v = CLIENT_ID

\* The values of a stored trace.
TraceValues(trace) ==
    <<trace.status, trace.request.url, trace.request.patient, trace.operationOutcome>>
    \o [k \in 1..Len(trace.headers[2]) |-> trace.headers[2][k][2]]

\* No value under any key of the stored traces is a secret.
TracesClean(traces) ==
    Truthy(traces) =>
        \A key \in DOMAIN traces[2] :
            \A v \in Range(TraceValues(traces[2][key])) : ~IsSecret(v)

\* No status of the stored errors is a secret (their diagnostics are the texts
\* of the FHIR server).
ErrorsClean(errors) ==
    /\ Has(errors, "observations") =>
          \A e \in Range(errors[2]["observations"].categoryErrors) : ~IsSecret(e.status)
    /\ (Has(errors, "medications") /\ errors[2]["medications"] # Null) =>
          ~IsSecret(errors[2]["medications"][2])

\* C19 for one request.
NoSecretShown(r) ==
    /\ (r.kind = "session" /\ r.pc = "done" /\ r.res.status = 200)
       => \A k \in 1..Len(r.res.body) : ~IsSecret(r.res.body[k][2])
    /\ (r.kind = "debug" /\ r.pc = "done" /\ r.res.status = 200)
       => /\ \A name \in {"patientId", "fhirBaseUrl", "grantedScope", "clientId"} :
                ~IsSecret(Param(r.res.body, name))
          /\ ErrorsClean(Param(r.res.body, "lastEpicErrors"))
          /\ TracesClean(Param(r.res.body, "lastEpicTrace"))

----------------------------------------------------------------------------
\* C20 for one request.
FailureBecomesBundle(r) ==
    (/\ \E kind \in ResourceKinds : Live(r, kind)
     /\ r.pc = "done"
     /\ \E k \in 1..Len(r.replies) : ~r.replies[k].ok)
    => /\ r.res.status = 200
       /\ r.res.tag = "bundle"
       /\ Param(r.res.body, "entry") = Array(<<>>) => Truthy(Param(r.res.body, "note"))

\* C20: a live request of /api/patient, /api/observations, /api/conditions or
\* /api/medications whose FHIR request fails is answered 200 with a bundle, with
\* a note when the bundle is empty, never with the status of the failure.
C20_FailureBecomesBundle == Every(FailureBecomesBundle)

----------------------------------------------------------------------------
\* The body of a discovery answer holds no endpoint: it is not a SMART
\* configuration.
Malformed(data) ==
    /\ ~Truthy(data.authorization_endpoint)
    /\ ~Truthy(data.token_endpoint)

\* The well-known fetch failed: no 2xx answer, or a malformed body.
WellKnownFailed(reply) == ~reply.ok \/ Malformed(reply.data)

\* C21 for one request.
FallbackIffFailed(r) ==
    r.kind = "launch"
    => /\ r.out[1] = Get("/.well-known/smart-configuration")
       /\ Len(r.out) <= 2
       /\ Len(r.out) = 2 => r.out[2] = Get("/metadata")
       /\ r.pc = "done" =>
            /\ Len(r.out) = 2 <=> WellKnownFailed(r.replies[1])
            /\ (Len(r.out) = 2 /\ r.replies[2].ok) =>
                  r.sess.tokenEndpoint = r.replies[2].data.token_endpoint

\* C21: a launch requests the well-known document first and the metadata
\* document exactly when the well-known fetch failed (no 2xx answer, or a body
\* that is not a configuration), and then takes the endpoints from the
\* oauth-uris extension of the metadata document.
C21_FallbackIffFailed == Every(FallbackIffFailed)

----------------------------------------------------------------------------
\* The discovery of a launch yielded both endpoints: its last answer is a
\* document that holds them.
BothEndpoints(r) ==
    LET reply == r.replies[Len(r.replies)]
    IN  /\ reply.ok
        /\ Truthy(reply.data.authorization_endpoint)
        /\ Truthy(reply.data.token_endpoint)

\* C22 for one request.
DiscoveryErrorOrBoth(r) ==
    (r.kind = "launch" /\ r.pc = "done")
    => /\ ~BothEndpoints(r) => (r.res.status = 500 /\ r.sess = r.orig)
       /\ r.sess # r.orig => Truthy(r.sess.tokenEndpoint)

\* C22: a launch whose discovery yields no document with both an authorization
\* and a token endpoint is answered with the discovery error and stores
\* nothing, so that no launch stores an undefined token endpoint in its session.
C22_DiscoveryErrorOrBoth == Every(DiscoveryErrorOrBoth)

----------------------------------------------------------------------------
\* The flow state of a session.
FlowState(sess) ==
    <<sess.codeVerifier, sess.state, sess.nonce, sess.fhirBaseUrl, sess.tokenEndpoint>>

\* C29 for one request.
FailedLaunchKeepsFlow(r) ==
    (r.kind = "launch" /\ r.pc = "done" /\ r.res.status # 302)
    => FlowState(r.sess) = FlowState(r.orig)

\* C29: a launch that is answered with an error leaves codeVerifier, state,
\* nonce, fhirBaseUrl and tokenEndpoint of its session as they were when it
\* arrived.
C29_FailedLaunchKeepsFlow == Every(FailedLaunchKeepsFlow)

----------------------------------------------------------------------------
\* The field of a response body, undefined when the body lacks it.
Field(body, name) ==
    IF \E k \in 1..Len(body) : body[k][1] = name THEN Param(body, name) ELSE Undefined

\* C27 for one request.
BundleEnvelope(r) ==
    (/\ r.kind \in BundleKinds
     /\ Truthy(r.orig.accessToken)
     /\ r.pc = "done"
     /\ r.res.status = 200)
    => /\ Field(r.res.body, "resourceType") = Lit("Bundle")
       /\ Field(r.res.body, "type") = Lit("searchset")
       /\ Field(r.res.body, "entry")[1] = "array"
       /\ Field(r.res.body, "total") = Number(Len(Field(r.res.body, "entry")[2]))

\* C27: every bundle that /api/observations, /api/conditions and
\* /api/medications answer with status 200, on a live session and in demo mode,
\* has resourceType 'Bundle', type 'searchset' and a total that is the number of
\* its entries.
C27_BundleEnvelope == Every(BundleEnvelope)

----------------------------------------------------------------------------
\* C28 for one request.
ExchangedTokenUsed(r) ==
    (r.kind \in ResourceKinds /\ r.orig.accessToken[1] = "access")
    => /\ r.out # <<>>
       /\ \A k \in 1..Len(r.out) :
             /\ r.out[k].url = r.orig.fhirBaseUrl
             /\ r.out[k].bearer = r.orig.accessToken

\* C28: a resource fetch on a session that holds the access token of a token
\* exchange queries the FHIR server with that token, also when /demo had put
\* the session in demo mode before the exchange.
C28_ExchangedTokenUsed == Every(ExchangedTokenUsed)

----------------------------------------------------------------------------
\* The four responses of /callback.
CallbackResponse(r) ==
    \/ /\ r.res.status = 400
       /\ Field(r.res.body, "hint") = Lit("Authorization was denied or failed")
       /\ r.out = <<>>
    \/ /\ r.res.status = 400
       /\ Field(r.res.body, "error") = Lit("State mismatch - possible CSRF attack")
       /\ r.out = <<>>
    \/ /\ r.res.status = 302
       /\ Field(r.res.body, "location") = Lit("/dashboard")
       /\ r.replies[1].ok
    \/ /\ r.res.status = 500
       /\ Field(r.res.body, "error") = Lit("Token exchange failed")
       /\ ~r.replies[1].ok

\* A callback that was answered has one of the four responses, and one in
\* progress has none yet.
OneCallbackResponse(r) ==
    r.kind = "callback"
    => IF r.pc = "done" THEN CallbackResponse(r)
       ELSE r.res = NoResponse /\ Len(r.out) <= 1

----------------------------------------------------------------------------
\* The call of a helper that has returned.
Returned(fn) == last.kind = fn /\ last.pc = "returned"

\* needle occurs in hay (sequences of characters).
Contains(hay, needle) ==
    \E k \in 0..(Len(hay) - Len(needle)) : SubSeq(hay, k + 1, k + Len(needle)) = needle

\* The characters of a string value.
Chars(v) == IF v[1] = "text" THEN v[2] ELSE <<>>

\* first four characters, '...', last four characters
Truncated(chars) ==
    LET n == Len(chars)
    IN  SubSeq(chars, 1, IF n < 4 THEN n ELSE 4) \o <<".", ".", ".">>
        \o SubSeq(chars, IF n < 4 THEN 1 ELSE n - 3, n)

\* C26: for every client identifier maskClientId returns its truncated form
\* (the first four characters, '...', the last four), and what it returns
\* neither equals nor contains the full identifier.
C26_MaskedTruncated ==
    (Returned("maskClientId") /\ IsString(last.arg) /\ last.arg # EmptyString) =>
        /\ last.out = Text(Truncated(Chars(last.arg)))
        /\ ~Contains(Chars(last.out), Chars(last.arg))

\* An identifier of eleven characters whose middle three are periods comes back whole.
C26_ReturnedWhole ==
    Returned("maskClientId") /\ Len(Chars(last.arg)) = 11 => last.out # last.arg

----------------------------------------------------------------------------
\* The header name, in any letter case and under any prefix, is one that carries
\* a cookie or an authorization credential.
CarriesCredential(name) ==
    \E k \in 1..Len(name) :
        name[k] \in {"cookie", "Cookie", "set-cookie", "Set-Cookie",
                     "authorization", "Authorization"}

\* The name is one of content negotiation or caching, or a tracing name.
OnAllowList(name) ==
    \/ name \in {<<"content-type">>, <<"date">>, <<"server">>, <<"etag">>,
                 <<"last-modified">>, <<"cache-control">>, <<"expires">>, <<"pragma">>,
                 <<"vary">>, <<"content-location">>, <<"location">>,
                 <<"content-encoding">>}
    \/ \E k \in 1..Len(name) : name[k] \in {"request", "trace", "correlation"}

\* C25: pickSafeResponseHeaders returns only headers whose names are on the
\* allow-list (content negotiation, caching, tracing), and none that carries a
\* cookie or an authorization credential, whatever the letter case or the prefix
\* of its name.
C25_SafeHeadersOnly ==
    Returned("pickSafeResponseHeaders") =>
        \A k \in 1..Len(last.out[2]) :
            /\ OnAllowList(last.out[2][k][1])
            /\ ~CarriesCredential(last.out[2][k][1])

----------------------------------------------------------------------------
\* The message has the form 'Client not authorized for X.': the phrase, a text X
\* that is not empty, and a final period.
OfTheForm(msg) ==
    /\ IsString(msg)
    /\ Len(Chars(msg)) >= 3
    /\ Head(Chars(msg)) \in {"Client not authorized for ", "CLIENT NOT AUTHORIZED FOR "}
    /\ Chars(msg)[Len(Chars(msg))] = "."

\* X: the full text between the phrase and the final period, without the blanks
\* around it.
TargetOf(msg) == Text(trim(SubSeq(Chars(msg), 2, Len(Chars(msg)) - 1)))

\* C23: for a list of diagnostic strings extractNotAuthorizedTargets returns
\* exactly the distinct X of the strings of the form 'Client not authorized for
\* X.', X being the full text between the phrase and the final period; other
\* strings contribute nothing, and a list without a match gives the empty set.
C23_TargetsExact ==
    (Returned("extractNotAuthorizedTargets") /\ last.arg[1] = "array") =>
        /\ {last.out[k] : k \in 1..Len(last.out)}
               = {TargetOf(msg) : msg \in {m \in Range(last.arg[2]) : OfTheForm(m)}}
        /\ \A j, k \in 1..Len(last.out) : j # k => last.out[j] # last.out[k]

----------------------------------------------------------------------------
\* The payload is an OperationOutcome with a list of issues.
IsOutcome(payload) == payload[1] = "OperationOutcome" /\ payload[2][1] = "array"

RECURSIVE DiagnosticStrings(_)
\* The diagnostic strings of the issues in issue order: of each issue its
\* diagnostics when present and its details.text otherwise.
DiagnosticStrings(issues) ==
    IF issues = <<>> THEN <<>>
    ELSE LET i == Head(issues)
         IN  (IF Truthy(i.diagnostics) THEN <<i.diagnostics>>
              ELSE IF Truthy(i.details) THEN <<i.details>>
              ELSE <<>>)
             \o DiagnosticStrings(Tail(issues))

\* C24 as stated: for an OperationOutcome extractOperationOutcomeDiagnostics
\* returns the sequence of its issues' diagnostic strings in issue order
\* (diagnostics when present, details.text otherwise), and for every other
\* payload it returns null.
C24_SequenceForEveryOutcome ==
    Returned("extractOperationOutcomeDiagnostics") =>
        IF IsOutcome(last.arg)
        THEN last.out = Array(DiagnosticStrings(last.arg[2][2]))
        ELSE last.out = Null

\* C24: for an OperationOutcome of which an issue has diagnostics or a
\* details.text extractOperationOutcomeDiagnostics returns the sequence of its
\* issues' diagnostic strings in issue order (diagnostics when present,
\* details.text otherwise); for an OperationOutcome without any such string, as
\* for every other payload, it returns null.
C24_SequenceOrNull ==
    Returned("extractOperationOutcomeDiagnostics") =>
        IF IsOutcome(last.arg) /\ DiagnosticStrings(last.arg[2][2]) # <<>>
        THEN last.out = Array(DiagnosticStrings(last.arg[2][2]))
        ELSE last.out = Null

\* An OperationOutcome of two issues, the first with diagnostics and the second
\* with a details.text only, gave both strings in that order.
C24_Witness ==
    /\ Returned("extractOperationOutcomeDiagnostics")
    /\ last.arg = <<"OperationOutcome",
                    Array(<<Issue(OtherDiagnostic, Text(<<"Details">>)),
                            Issue(Undefined, Text(<<"Details">>))>>)>>
    /\ last.out = Array(<<OtherDiagnostic, Text(<<"Details">>)>>)

----------------------------------------------------------------------------
\* C31 for one request: an authenticated /api/observations request has no
\* response while a category is outstanding, and its one response comes when
\* every configured category has been answered or has failed.
RespondsAfterLastCategory(r) ==
    (r.kind = "observations" /\ Truthy(r.orig.accessToken))
    => IF r.pc = "done"
       THEN /\ r.res.status = 200
            /\ Truthy(r.orig.demoMode) \/ Len(r.replies) = 2
       ELSE /\ r.res = NoResponse
            /\ Len(r.replies) < 2

\* C31: provided every search sent upstream is answered or fails, every
\* authenticated /api/observations request ends with one response, sent only
\* after the last configured category has completed.
C31_RespondsAfterLastCategory ==
    /\ []Every(RespondsAfterLastCategory)
    /\ \A i \in Slots : (reqs[i].kind = "observations") ~> (reqs[i].kind # "observations")

\* A live /api/observations request was answered after both categories failed.
C31_Witness ==
    /\ Live(last, "observations")
    /\ last.pc = "done"
    /\ last.res.status = 200
    /\ Len(last.replies) = 2
    /\ ~last.replies[1].ok
    /\ ~last.replies[2].ok
    /\ Busy = {}

----------------------------------------------------------------------------
\* The bundle holds an OperationOutcome entry of which an issue has diagnostics.
HasWarning(data) ==
    /\ Truthy(data.entry)
    /\ \E e \in Range(data.entry[2]) :
          /\ e[1] = "OperationOutcome"
          /\ e[2][1] = "array"
          /\ \E issue \in Range(e[2][2]) : Truthy(issue.diagnostics)

\* The notes that tell of a denial: the one that lists the targets the app is
\* not authorized for, and the one about blocked sub-resources.
DenialNotes ==
    {"No observations available. Epic app is not authorized for",
     "No observations available. Epic is blocking specific sub-resources"}

\* C32 for one request.
WarningIsSoftFailure(r) ==
    (Live(r, "observations") /\ r.pc = "done")
    => \A k \in 1..Len(categories) :
          (r.replies[k].ok /\ HasWarning(r.replies[k].data))
          => /\ \E e \in Range(StoredCategoryErrors(r)) :
                   /\ e.category = categories[k]
                   /\ e.status = Number(200)
                   /\ e.diagnostics[1] = "array"
                   /\ e.diagnostics[2] # <<>>
             /\ Param(r.res.body, "entry")[2] = <<>>
                => /\ Param(r.res.body, "note") # Null
                   /\ Param(r.res.body, "note")[1] \in DenialNotes

\* C32: a category answered 200 with a bundle that holds an OperationOutcome
\* entry with diagnostics is recorded among the category errors with status 200,
\* and when the fetch collects no Observation the note is then the advisory about
\* blocked sub-resources or the one listing the targets not authorized, never
\* the generic one.
C32_WarningIsSoftFailure == Every(WarningIsSoftFailure)

\* Laboratory answered 200 with a warning and without Observation, vital-signs
\* failed without a response: the note is the advisory about blocked sub-resources.
C32_Witness ==
    /\ Live(last, "observations")
    /\ last.pc = "done"
    /\ last.replies[1].ok
    /\ HasWarning(last.replies[1].data)
    /\ ~last.replies[2].ok
    /\ last.replies[2].data.status = 0
    /\ Param(last.res.body, "entry")[2] = <<>>
    /\ Param(last.res.body, "note")[1]
           = "No observations available. Epic is blocking specific sub-resources"

----------------------------------------------------------------------------
\* C33 for one request.
PatientScoped(r) ==
    (\E kind \in ResourceKinds : Live(r, kind))
    => \A k \in 1..Len(r.out) :
          /\ r.out[k].bearer = r.orig.accessToken
          /\ r.out[k].bearer[1] = "access"
          /\ r.out[k].patient = r.orig.patientId
          /\ r.out[k].patient[1] = "patient"

\* C33: every query that a live resource fetch sends to the FHIR server carries
\* the access token of the session and the patient id of the session, both as
\* the last successful token exchange stored them, and the patient id is defined.
C33_PatientScoped == Every(PatientScoped)

----------------------------------------------------------------------------
\* The fields of a session that are not diagnostic: the credentials, the patient,
\* the scope, the mode and the flow state.
Credentials(sess) ==
    <<sess.accessToken, sess.refreshToken, sess.patientId, sess.grantedScope,
      sess.demoMode>> \o FlowState(sess)

\* The response of the resource fetch in slot i ends in this step.
FetchEnds(i) ==
    /\ reqs[i].kind \in ResourceKinds
    /\ reqs[i].pc # "idle"
    /\ reqs'[i].pc = "idle"

\* C34: the end of a resource fetch leaves the stored session's accessToken,
\* refreshToken, patientId, grantedScope, demoMode and flow state as they were,
\* whatever other requests of the session started or completed while the fetch
\* awaited the FHIR server.
C34_FetchKeepsCredentials ==
    [][\A i \in Slots :
          (FetchEnds(i) /\ reqs[i].sid \in DOMAIN store /\ reqs[i].sid \in DOMAIN store')
          => Credentials(store'[reqs[i].sid]) = Credentials(store[reqs[i].sid])]_vars

----------------------------------------------------------------------------
\* C35: a session that a logout has destroyed stays destroyed when a resource
\* fetch of that session, begun before the logout, sends its response: the end
\* of the fetch does not put the session back in the store, so that /api/session
\* keeps answering 401.
C35_LogoutIsFinal ==
    [][\A i \in Slots :
          (FetchEnds(i) /\ ~reqs[i].fresh /\ reqs[i].sid \notin DOMAIN store)
          => /\ reqs[i].sid \notin DOMAIN store'
             /\ SessionAnswers401']_vars

----------------------------------------------------------------------------
\* C36 for one request.
DemoStaysLocal(r) ==
    (r.kind \in ResourceKinds \cup SampleKinds)
    => /\ Truthy(r.orig.demoMode) => r.out = <<>>
       /\ \A k \in 1..Len(r.out) : r.out[k].bearer # Lit("demo-token")

\* C36: a request of a session in demo mode to a resource endpoint or to a
\* debug sample endpoint sends no outbound request, and no request carries the
\* token 'demo-token' to a server.
C36_DemoStaysLocal ==
    /\ \A kind \in ResourceKinds \cup SampleKinds : DemoStaysLocal(Arriving(kind, NoQuery))
    /\ \A i \in Busy : DemoStaysLocal(reqs[i])
    /\ DemoStaysLocal(last)


\* An Apex call of the EpicPatientSync component is in flight.
CallInFlight == last.component = "EpicPatientSync" /\ last.calls # <<>>

\* C37: in the EpicPatientSync component isLoading is true whenever at least
\* one Apex call (connection check, search, view patient, sync) is in flight:
\* a call that finishes does not clear isLoading while another call is still
\* awaited.
C37_LoadingWhileInFlight == CallInFlight => last.isLoading

\* The checkConnection run of the EpicConnectivityCheck component has completed.
RunCompleted ==
    /\ last.component = "EpicConnectivityCheck"
    /\ last.mounted
    /\ last.calls = <<>>

\* One of the three calls failed or the server info carried an error: the run
\* ended before the metadata were stored.
RunFailed == RunCompleted /\ last.rawMetadata = EmptyString

\* C38: once a checkConnection run of the EpicConnectivityCheck component has
\* completed, isLoading is false and connectionStatus is 'Connected' exactly
\* when error is null; a run in which a call failed or the server info carried
\* an error ends with 'Connection Failed' and an error that is not null.
C38_StatusMatchesError ==
    RunCompleted =>
        /\ ~last.isLoading
        /\ last.connectionStatus = "Connected" <=> last.error = Null
        /\ RunFailed => /\ last.connectionStatus = "Connection Failed"
                        /\ last.error # Null

\* A run that failed after the server info had been accepted.
C38_Witness ==
    /\ RunFailed
    /\ last.serverInfo # Null
    /\ last.connectionStatus = "Connection Failed"

====
